---- MODULE Spec2Model ----
(***************************************************************************)
(* SecAudit: the RLM query executor (RLMEngine.llmQuery, llmQueryBatched), *)
(* the chunker (RLMEngine.chunkCode), the four-phase pipeline              *)
(* (DeepLLMScanner.analyze) and the tool-call agent (AgentV2Scanner.scan). *)
(*                                                                         *)
(* JavaScript runs one synchronous segment at a time: an async function    *)
(* runs without interruption up to its next await.  Every action below is  *)
(* one such segment.                                                       *)
(***************************************************************************)
EXTENDS Integers, Sequences, FiniteSets, TLC

(* ------------------------------ bounds --------------------------------- *)
MaxIter == 4        \* largest maxIterations an engine is configured with
MaxConc == 2        \* largest concurrency an engine is configured with
MaxCalls == 3       \* longest calls[] handed to llmQueryBatched by a client
MaxChunks == 1      \* most chunks (queued calls) one module contributes
MaxRuns == 2        \* analyze() invocations on one scanner
MaxReplTurns == 2   \* largest maxIterations a client passes to analyzeWithREPL
MaxItems == 3       \* most elements of a JSON array handed to parseFindings
MaxFiles == 3       \* longest file list handed to chunkCode
MaxTurns == 3       \* largest maxIterations an agent scanner is configured with
MaxFindings == 3    \* longest finding list handed to a deduplication
MaxOps == 6         \* most calls a client makes on one RLMRepl
MaxEntries == 2     \* most entries of one directory of a searched tree
MaxSegments == 3    \* most segments of a path argument of a file action

(* ------------------------------ texts ---------------------------------- *)
\* A model output text is abstracted by what parseJSONArray finds in it:
\* json = "empty" (the text ''), "none" (no [...] substring), "invalid"
\* (a [...] substring that JSON.parse rejects) or "array" with its elements.
\* An element is null or an object; an absent field is the falsy "" / 0.
NoText == [json |-> "empty", items |-> <<>>]

Obj(module, priority, file, line, severity, message, rule) ==
    [kind |-> "obj", module |-> module, priority |-> priority, file |-> file,
     line |-> line, severity |-> severity, message |-> message, rule |-> rule]

NullItem ==
    [kind |-> "null", module |-> "", priority |-> 0, file |-> <<>>,
     line |-> 0, severity |-> "", message |-> "", rule |-> ""]

Prose == [json |-> "none", items |-> <<>>]
BadJSON == [json |-> "invalid", items |-> <<>>]
Arr(items) == [json |-> "array", items |-> items]

\* Texts a model call of the plain engine client may answer with.
ClientTexts == {Prose, Arr(<<Obj("", 0, "a.ts", 10, "high", "xss", "R1")>>)}

VARIABLES
    maxIterations,  \* RLMEngine.config.maxIterations
    concurrency,    \* RLMEngine.config.concurrency
    callCount,      \* RLMEngine.callCount
    op,             \* engine operation in progress: "none", "single", "batched"
    opDone,         \* the operation's promise is resolved
    n,              \* calls.length of the operation
    i,              \* loop variable of llmQueryBatched
    stage,          \* per call: position of its llmQuery invocation
    ret,            \* per call: value its llmQuery promise resolved with
    order,          \* indices of the calls, in the order their promises resolved
    results,        \* the results array of llmQueryBatched
    dispatched,     \* history: model-call attempts begun (try block entered)
    pc,             \* analyze(): "idle", the phase awaited, "returned", "threw"
    run,            \* analyze() invocations begun on this scanner
    modules,        \* analyze(): the modules phaseRecon returned
    calls,          \* phaseFocusedAnalysis: moduleName of each queued call
    moduleFindings, \* analyze(): findings of phase 2
    allFindings,    \* analyze(): [...moduleFindings, ...crossFindings]
    result,         \* the RLMResult analyze() returned
    reconText,      \* history: the text the Recon llmQuery returned
    reconMark,      \* history: callCount when the Recon llmQuery returned
    files,          \* chunkCode: the files argument
    maxCharsPerChunk, \* chunkCode: the maxCharsPerChunk argument
    chunks,         \* chunkCode: the returned chunks
    chunkPc,        \* chunkCode: "input" before the call, "done" after
    aPc,            \* scan(): "off", "awaiting" the model, "returned"
    aMaxIterations, \* AgentV2Config.maxIterations
    aI,             \* scan(): the loop variable i
    sourceFileCount, \* scan(): sourceFileCount
    filesRead,      \* scan(): the filesRead set
    messages,       \* scan(): the conversation
    aFindings,      \* scan(): how many findings were reported so far
    endedBy,        \* history: what ended the loop
    actuallyRead,   \* history: the files read_file returned the content of
    useRepl,        \* DeepLLMScanner.useRepl
    rPc,            \* analyzeWithREPL: "off", "files", "turn", "exec", "sub",
                    \* "returned", "threw"
    rCaller,        \* who awaits analyzeWithREPL: "analyze" or "client"
    rMaxIterations, \* analyzeWithREPL: the maxIterations argument
    rI,             \* analyzeWithREPL: the loop variable i
    rFindings,      \* analyzeWithREPL: findings
    blocks,         \* the code blocks of the turn not yet executed, first = running
    rReq,           \* the request checkForLLMRequest returned, being served
    containerId,    \* RLMRepl.containerId (0 is null)
    live,           \* the containers of this scanner that exist
    started,        \* containers started so far
    stops,          \* history: stop() calls of the current analyzeWithREPL
    rExit,          \* history: what ended the current analyzeWithREPL
    py,             \* the script in the sandbox: "idle", "running", "polling", "exited"
    todo,           \* the llm_query / llm_query_batched calls the script has left
    curCall,        \* the call that is polling
    nextCall,       \* helper calls made so far in the session
    requestFile,    \* /workspace/.llm_request.json
    responseFile,   \* /workspace/.llm_response.json
    lastReturn,     \* history: what the last helper call that returned got
    callPc,         \* a function applied on its own: "off", "input", "returned", "threw"
    arg,            \* its argument
    retval,         \* what it returned
    tPc,            \* AgentScanner.scan: "off", "awaiting" the model, "returned", "threw"
    tMaxIterations, \* AgentConfig.maxIterations
    tI,             \* scan: the loop variable i
    tFindings,      \* scan: findings
    transcript,     \* scan: transcript, each entry with its kind and length
    tFilesRead,     \* scan: the keys of the filesRead map
    tEndedBy,       \* history: what ended the loop
    tCalls,         \* history: completeSimple calls made
    tLast,          \* history: the response of the last turn
    tRecorded       \* history: the findings in the order they were recorded

engineVars == <<maxIterations, concurrency, callCount, op, opDone, n, i,
                stage, ret, order, results, dispatched>>

analyzeVars == <<pc, run, modules, calls, moduleFindings, allFindings, result,
                 reconText, reconMark, useRepl>>

chunkVars == <<files, maxCharsPerChunk, chunks, chunkPc>>

pureVars == <<callPc, arg, retval>>

scaVars == <<tPc, tMaxIterations, tI, tFindings, transcript, tFilesRead,
             tEndedBy, tCalls, tLast, tRecorded>>

replVars == <<rPc, rCaller, rMaxIterations, rI, rFindings, blocks, rReq,
              containerId, live, started, stops, rExit, py, todo, curCall,
              nextCall, requestFile, responseFile, lastReturn>>

agentVars == <<aPc, aMaxIterations, aI, sourceFileCount, filesRead, messages,
               aFindings, endedBy, actuallyRead>>

Final == {"refused", "nomodel", "failed", "ok"}
Outstanding == {"loading", "calling"}

Min(a, b) == IF a < b THEN a ELSE b

\* rlm-engine.ts:68, the guard at the head of llmQuery
llmQueryRefusesOff(cc) == cc > maxIterations
llmQueryRefuses(cc) == cc >= maxIterations

\* rlm-engine.ts:242, the isExhausted getter
isExhaustedOff(cc) == cc > maxIterations
isExhausted(cc) == cc >= maxIterations

\* The synchronous heads of the llmQuery invocations that batch.map starts,
\* one after the other: each tests the counter and, if admitted, increments
\* it and enters the try block before the next one runs.  Result: for each
\* of the g invocations, whether it was admitted.
RECURSIVE llmQueryHeads(_, _)
llmQueryHeadsStale(cc, g) == [k \in 1..g |-> ~llmQueryRefuses(cc)]
llmQueryHeads(cc, g) ==
    IF g = 0 THEN <<>>
    ELSE LET admit == ~llmQueryRefuses(cc)
         IN <<admit>> \o llmQueryHeads(IF admit THEN cc + 1 ELSE cc, g - 1)

Admitted(heads) == Cardinality({k \in DOMAIN heads : heads[k]})

\* stage and ret after the heads of calls lo..hi have run
StartCalls(st, lo, hi, heads) ==
    [k \in DOMAIN st |->
        IF k >= lo /\ k <= hi
        THEN (IF heads[k - lo + 1] THEN "loading" ELSE "refused")
        ELSE st[k]]

OrderAfter(ord, lo, hi, heads) ==
    LET RECURSIVE app(_, _)
        app(o, k) == IF k > hi THEN o
                     ELSE app(IF heads[k - lo + 1] THEN o ELSE Append(o, k), k + 1)
    IN app(ord, lo)

\* llmQuery(systemPrompt, userPrompt), called by a client: the guard, the
\* increment and the entry into the try block (up to the first await).
llmQuery ==
    /\ LET heads == llmQueryHeads(callCount, 1)
       IN /\ callCount' = callCount + Admitted(heads)
          /\ dispatched' = dispatched + Admitted(heads)
          /\ stage' = StartCalls([k \in 1..1 |-> "pending"], 1, 1, heads)
          /\ order' = OrderAfter(<<>>, 1, 1, heads)
    /\ op' = "single"
    /\ opDone' = FALSE
    /\ n' = 1
    /\ i' = 0
    /\ ret' = [k \in 1..1 |-> NoText]
    /\ results' = <<>>
    /\ UNCHANGED <<maxIterations, concurrency>>

\* llmQuery after its awaits of import(): createModel returned and
\* completeSimple is called, the model call is now outstanding.
CreateModelOk(k) ==
    /\ op # "none"
    /\ k \in DOMAIN stage
    /\ stage[k] = "loading"
    /\ stage' = [stage EXCEPT ![k] = "calling"]
    /\ UNCHANGED <<maxIterations, concurrency, callCount, op, opDone, n, i,
                   ret, order, results, dispatched>>

\* createModel (or the import) threw: the catch block returns ''.
CreateModelThrowsUncaught(k) ==
    /\ op # "none"
    /\ k \in DOMAIN stage
    /\ stage[k] = "loading"
    /\ stage' = [stage EXCEPT ![k] = "threw"]
    /\ UNCHANGED <<maxIterations, concurrency, callCount, op, opDone, n, i,
                   ret, order, results, dispatched>>
CreateModelThrows(k) ==
    /\ op # "none"
    /\ k \in DOMAIN stage
    /\ stage[k] = "loading"
    /\ stage' = [stage EXCEPT ![k] = "nomodel"]
    /\ ret' = [ret EXCEPT ![k] = NoText]
    /\ order' = Append(order, k)
    /\ UNCHANGED <<maxIterations, concurrency, callCount, op, opDone, n, i,
                   results, dispatched>>

\* completeSimple resolved: the text parts are joined and returned.
ModelReplies(k, t) ==
    /\ op # "none"
    /\ k \in DOMAIN stage
    /\ stage[k] = "calling"
    /\ stage' = [stage EXCEPT ![k] = "ok"]
    /\ ret' = [ret EXCEPT ![k] = t]
    /\ order' = Append(order, k)
    /\ UNCHANGED <<maxIterations, concurrency, callCount, op, opDone, n, i,
                   results, dispatched>>

\* completeSimple rejected, or the response had no usable text: ''.
ModelFails(k) ==
    /\ op # "none"
    /\ k \in DOMAIN stage
    /\ stage[k] = "calling"
    /\ stage' = [stage EXCEPT ![k] = "failed"]
    /\ ret' = [ret EXCEPT ![k] = NoText]
    /\ order' = Append(order, k)
    /\ UNCHANGED <<maxIterations, concurrency, callCount, op, opDone, n, i,
                   results, dispatched>>

\* Array.prototype.slice(s, e) on an array of length len, as the pair
\* <<lo, hi>> of the 1-based positions it keeps (none when hi < lo).
slice(s, e, len) ==
    LET from == IF s < 0 THEN (IF len + s < 0 THEN 0 ELSE len + s) ELSE Min(s, len)
        to == IF e < 0 THEN (IF len + e < 0 THEN 0 ELSE len + e) ELSE Min(e, len)
    IN <<from + 1, to>>

\* The group llmQueryBatched is awaiting: calls.slice(i, i + concurrency).
Batch == slice(i, i + concurrency, n)

\* Promise.all(batch.map(...)) resolves once every promise of the batch has.
PromiseAllAny(st, lo, hi) == \E k \in lo..hi : st[k] \in Final
PromiseAll(st, lo, hi) == \A k \in lo..hi : st[k] \in Final

\* The value Promise.all resolves with: the promises' values in the order
\* of the batch, whatever order they resolved in.
batchResultsByCompletion(rt, lo, hi, ord) ==
    LET mine == SelectSeq(ord, LAMBDA k : k >= lo /\ k <= hi)
    IN [j \in 1..Len(mine) |-> rt[mine[j]]]
batchResults(rt, lo, hi, ord) ==
    IF hi < lo THEN <<>> ELSE [j \in 1..(hi - lo + 1) |-> rt[lo + j - 1]]

\* llmQueryBatched(calls) with calls.length = m, up to its first await:
\* results = [], i = 0 and, when the loop is entered, the first batch.
llmQueryBatched(m) ==
    /\ op' = "batched"
    /\ n' = m
    /\ i' = 0
    /\ results' = <<>>
    /\ ret' = [k \in 1..m |-> NoText]
    /\ IF 0 < m
       THEN LET b == slice(0, concurrency, m)
                g == IF b[2] < b[1] THEN 0 ELSE b[2] - b[1] + 1
                heads == llmQueryHeads(callCount, g)
            IN /\ callCount' = callCount + Admitted(heads)
               /\ dispatched' = dispatched + Admitted(heads)
               /\ stage' = StartCalls([k \in 1..m |-> "pending"], b[1], b[2], heads)
               /\ order' = OrderAfter(<<>>, b[1], b[2], heads)
               /\ opDone' = FALSE
       ELSE /\ opDone' = TRUE
            /\ stage' = [k \in 1..m |-> "pending"]
            /\ order' = <<>>
            /\ UNCHANGED <<callCount, dispatched>>
    /\ UNCHANGED <<maxIterations, concurrency>>

\* llmQueryBatched resumed by Promise.all: push the batch's results, advance
\* i, and either start the next batch or return results.
BatchJoin ==
    /\ op = "batched"
    /\ ~opDone
    /\ PromiseAll(stage, Batch[1], Batch[2])
    /\ results' = results \o batchResults(ret, Batch[1], Batch[2], order)
    /\ i' = i + concurrency
    /\ IF i' < n
       THEN LET b == slice(i', i' + concurrency, n)
                g == IF b[2] < b[1] THEN 0 ELSE b[2] - b[1] + 1
                heads == llmQueryHeads(callCount, g)
            IN /\ callCount' = callCount + Admitted(heads)
               /\ dispatched' = dispatched + Admitted(heads)
               /\ stage' = StartCalls(stage, b[1], b[2], heads)
               /\ order' = OrderAfter(order, b[1], b[2], heads)
               /\ opDone' = FALSE
       ELSE /\ opDone' = TRUE
            /\ UNCHANGED <<callCount, dispatched, stage, order>>
    /\ UNCHANGED <<maxIterations, concurrency, op, n, ret>>

\* The awaited engine call has resolved for its caller.
OpResolvedUnawaited == op # "none"
OpResolved ==
    \/ op = "single" /\ stage[1] \in Final
    \/ op = "batched" /\ opDone

\* The engine with no operation in progress.
EngineIdle ==
    /\ op' = "none"
    /\ opDone' = FALSE
    /\ n' = 0
    /\ i' = 0
    /\ stage' = <<>>
    /\ ret' = <<>>
    /\ order' = <<>>
    /\ results' = <<>>

(* ------------------------- parsing of texts ---------------------------- *)
\* rlm-engine.ts:202 parseJSONArray: '' / no bracketed substring / JSON.parse
\* throwing all give [], otherwise the parsed array.
parseJSONArray(text) == IF text.json = "array" THEN text.items ELSE <<>>

\* Reading a property of a null element raises a TypeError.
ThrowsOnNull(items) == \E k \in DOMAIN items : items[k].kind = "null"

\* Array.prototype.sort((a, b) => a.priority - b.priority), stable
RECURSIVE InsertByPriority(_, _)
InsertByPriority(sorted, x) ==
    IF sorted = <<>> THEN <<x>>
    ELSE IF x.priority < Head(sorted).priority THEN <<x>> \o sorted
    ELSE <<Head(sorted)>> \o InsertByPriority(Tail(sorted), x)

RECURSIVE SortByPriority(_)
SortByPriority(seq) ==
    IF seq = <<>> THEN <<>>
    ELSE InsertByPriority(SortByPriority(SubSeq(seq, 1, Len(seq) - 1)), seq[Len(seq)])

\* part_003:263-268 phaseRecon after its llmQuery: drop entries lacking
\* module or priority, sort ascending by priority.
KeepsModuleAll(m) == TRUE
KeepsModule(m) == m.module # "" /\ m.priority # 0
phaseRecon(text) == SortByPriority(SelectSeq(parseJSONArray(text), KeepsModule))

Finding(file, line, severity, message, rule, snippet) ==
    [file |-> file, line |-> line, severity |-> severity, message |-> message,
     rule |-> rule, snippet |-> snippet]

\* rlm-engine.ts:216 parseFindings: entries without message are dropped, the
\* other fields get their defaults (column and category are not modelled).
HasMessage(item) == item.message # ""
ToFinding(item, snippet) ==
    Finding(IF item.file = <<>> THEN <<"unknown">> ELSE item.file,
            IF item.line = 0 THEN 1 ELSE item.line,
            IF item.severity = "" THEN "medium" ELSE item.severity,
            item.message,
            IF item.rule = "" THEN "RLM_GENERIC" ELSE item.rule,
            snippet)
parseFindings(text, snippet) ==
    LET kept == SelectSeq(parseJSONArray(text), HasMessage)
    IN [k \in 1..Len(kept) |-> ToFinding(kept[k], snippet)]

\* No function is applied on its own.
PureOff ==
    /\ callPc = "off"
    /\ arg = <<>>
    /\ retval = <<>>

\* What an application of a function on its own leaves alone.
PureFrame ==
    UNCHANGED <<engineVars, analyzeVars, chunkVars, agentVars, replVars, scaVars>>

\* A JSON array element that is neither null nor an object (a number, a
\* string, true): every property read of it is undefined.
ScalarItem ==
    [kind |-> "scalar", module |-> "", priority |-> 0, file |-> <<>>,
     line |-> 0, severity |-> "", message |-> "", rule |-> ""]

\* The elements and the texts parseFindings is applied to.
ParseItems ==
    {NullItem, ScalarItem,
     Obj("", 0, <<"a.ts">>, 10, "high", "xss", "R1"),
     Obj("", 0, <<>>, 0, "", "", "")}

ParseTexts ==
    {NoText, Prose, BadJSON} \cup
    {Arr(items) : items \in UNION {[1..len -> ParseItems] : len \in 0..MaxItems}}

\* rlm-engine.ts:216-234 parseFindings(text, defaultSnippet) called: it
\* returns the findings, or the read of item.message of a null element throws.
parseFindingsCall ==
    /\ PureFrame
    /\ callPc = "input"
    /\ arg' = arg
    /\ IF ThrowsOnNull(parseJSONArray(arg.text))
       THEN callPc' = "threw" /\ retval' = <<>>
       ELSE callPc' = "returned" /\ retval' = parseFindings(arg.text, arg.snippet)

(* ----------------------- local deduplication --------------------------- *)
\* A file path is a sequence of tokens; "./" and ":" are tokens of their own.
\* part_003:449  f.file.replace(/^\.\//, '')
normFile(file) == IF file # <<>> /\ Head(file) = "./" THEN Tail(file) ELSE file

\* The line numbers the model's findings carry, and `${line}` of one.
LineNumbers == 0..25
LineStr(line) == ToString(line)

\* key.split(':'): the pieces between the ":" tokens
RECURSIVE split(_)
split(tokens) ==
    IF tokens = <<>> THEN << <<>> >>
    ELSE LET rest == split(Tail(tokens))
         IN IF Head(tokens) = ":"
            THEN << <<>> >> \o rest
            ELSE << <<Head(tokens)>> \o Head(rest) >> \o Tail(rest)

\* parseInt(piece, 10): the number a piece starts with, else NaN
NaN == 0 - 1
parseInt(piece) ==
    IF piece # <<>> /\ \E num \in LineNumbers : LineStr(num) = Head(piece)
    THEN CHOOSE num \in LineNumbers : LineStr(num) = Head(piece)
    ELSE NaN

\* part_003:461 the key of a new group
groupKey(f) == normFile(f.file) \o <<":", LineStr(f.line)>>

\* The Map groups is a sequence of [key, members] in insertion order.
\* part_003:452-454 the test of one group against the finding f
GroupMatches(g, f) ==
    LET pieces == split(g.key)
        gFile == pieces[1]
        gLine == parseInt(pieces[2])
    IN /\ gFile = normFile(f.file)
       /\ gLine # NaN
       /\ (IF f.line >= gLine THEN f.line - gLine ELSE gLine - f.line) <= 3

\* Map.set: a key that is present keeps its place and gets the new value.
MapSet(groups, key, value) ==
    IF \E k \in DOMAIN groups : groups[k].key = key
    THEN [k \in DOMAIN groups |->
             IF groups[k].key = key THEN [key |-> key, members |-> value]
             ELSE groups[k]]
    ELSE Append(groups, [key |-> key, members |-> value])

\* part_003:447-463 one pass of the outer loop
AddToGroups(groups, f) ==
    IF \E k \in DOMAIN groups : GroupMatches(groups[k], f)
    THEN LET first == CHOOSE k \in DOMAIN groups :
                          /\ GroupMatches(groups[k], f)
                          /\ \A j \in 1..(k - 1) : ~GroupMatches(groups[j], f)
         IN [groups EXCEPT ![first].members = Append(@, f)]
    ELSE MapSet(groups, groupKey(f), <<f>>)

RECURSIVE GroupFindings(_, _)
GroupFindings(groups, findings) ==
    IF findings = <<>> THEN groups
    ELSE GroupFindings(AddToGroups(groups, Head(findings)), Tail(findings))

severityRank(sev) ==
    CASE sev = "critical" -> 4
      [] sev = "high" -> 3
      [] sev = "medium" -> 2
      [] sev = "low" -> 1
      [] OTHER -> 0

\* message.length of the messages the model's texts carry
length(message) ==
    CASE message = "" -> 0
      [] message = "xss" -> 3
      [] message = "sqli" -> 4
      [] message = "bypass" -> 6
      [] OTHER -> 5

\* group.sort(...)[0]: highest severity, then longest message, then first.
Better(a, b) ==
    \/ severityRank(a.severity) > severityRank(b.severity)
    \/ /\ severityRank(a.severity) = severityRank(b.severity)
       /\ length(a.message) > length(b.message)

RECURSIVE BestOf(_, _)
BestOf(best, rest) ==
    IF rest = <<>> THEN best
    ELSE BestOf(IF Better(Head(rest), best) THEN Head(rest) ELSE best, Tail(rest))

\* part_003:444 simpleDeduplicate
simpleDeduplicate(findings) ==
    LET groups == GroupFindings(<<>>, findings)
    IN [k \in 1..Len(groups) |-> BestOf(Head(groups[k].members), Tail(groups[k].members))]

\* The tokens of the rule identifiers the findings carry.
RuleTokens(rule) ==
    CASE rule = "1:R" -> <<"1", ":", "R">>
      [] OTHER -> <<rule>>

\* part_002:342, cli.ts:156  `${f.file}:${f.line}:${f.rule}`
exactKey(f) == f.file \o <<":", LineStr(f.line), ":">> \o RuleTokens(f.rule)

\* part_002:340-346, cli.ts:154-160 the filter over the Set seen
RECURSIVE FilterSeen(_, _)
FilterSeen(findings, seen) ==
    IF findings = <<>> THEN <<>>
    ELSE LET key == exactKey(Head(findings))
         IN IF key \in seen
            THEN FilterSeen(Tail(findings), seen)
            ELSE <<Head(findings)>> \o FilterSeen(Tail(findings), seen \cup {key})

\* part_002:339 simpleDeduplicate (by file + line + rule)
simpleDeduplicateByKey(findings) == FilterSeen(findings, {})

\* The findings the two deduplications are applied to on their own.
ExactFindings ==
    {Finding(file, line, "high", "xss", rule, "") :
        file \in {<<"f.ts">>, <<"f.ts", ":", "1">>}, line \in {1, 2},
        rule \in {"R", "1:R"}}

ProximityFindings ==
    {Finding(file, line, "high", "xss", "R", "") :
        file \in {<<"f.ts">>, <<"./", "f.ts">>, <<"C", ":", "f.ts">>},
        line \in {10, 12, 13, 14, 20}}

FindingLists(set) == UNION {[1..len -> set] : len \in 0..MaxFindings}

\* part_002:339-347 simpleDeduplicate(findings) called
simpleDeduplicateByKeyCall ==
    /\ PureFrame
    /\ callPc = "input"
    /\ arg' = arg
    /\ callPc' = "returned"
    /\ retval' = simpleDeduplicateByKey(arg)

\* part_003:444-477 simpleDeduplicate(findings) called
simpleDeduplicateCall ==
    /\ PureFrame
    /\ callPc = "input"
    /\ arg' = arg
    /\ callPc' = "returned"
    /\ retval' = simpleDeduplicate(arg)

(* ---------------------- DeepLLMScanner.analyze -------------------------- *)
\* Texts the model may answer the Recon call with.
ReconTexts ==
    {Arr(<<>>), BadJSON,
     Arr(<<Obj("api", 0, <<>>, 0, "", "", ""), Obj("", 1, <<>>, 0, "", "", "")>>),
     Arr(<<NullItem>>),
     Arr(<<Obj("auth", 1, <<>>, 0, "", "", "")>>),
     Arr(<<Obj("db", 2, <<>>, 0, "", "", ""), Obj("auth", 1, <<>>, 0, "", "", "")>>)}

\* Texts the model may answer a Focused, CrossModule or Aggregation call with.
FindingTexts ==
    {Prose,
     Arr(<<NullItem>>),
     Arr(<<Obj("", 0, <<"a.ts">>, 10, "high", "xss", "R1")>>),
     Arr(<<Obj("", 0, <<"a.ts">>, 10, "high", "xss", "R1"),
           Obj("", 0, <<"./", "a.ts">>, 12, "critical", "sqli", "R2"),
           Obj("", 0, <<>>, 0, "", "bypass", "")>>)}

NoResult == [findings |-> <<>>, llmCalls |-> 0, chunksAnalyzed |-> 0,
             modulesIdentified |-> <<>>]

\* analyze() returns an RLMResult.
Return(findings, llmCalls, mods) ==
    /\ pc' = "returned"
    /\ result' = [findings |-> findings, llmCalls |-> llmCalls,
                  chunksAnalyzed |-> Len(mods),
                  modulesIdentified |-> [k \in 1..Len(mods) |-> mods[k].module]]
    /\ EngineIdle
    /\ UNCHANGED <<maxIterations, concurrency, callCount, dispatched>>

\* analyze() rejects: an exception left a phase.
Throw ==
    /\ pc' = "threw"
    /\ result' = NoResult
    /\ EngineIdle
    /\ UNCHANGED <<maxIterations, concurrency, callCount, dispatched>>

\* part_003:200-208 analyze after readFiles: no files, or the Recon llmQuery.
Analyze(filesEmpty) ==
    /\ UNCHANGED <<chunkVars, agentVars, replVars, pureVars, scaVars>>
    /\ pc \in {"idle", "returned", "threw"}
    /\ run < MaxRuns
    /\ run' = run + 1
    /\ UNCHANGED useRepl
    /\ modules' = <<>>
    /\ calls' = <<>>
    /\ moduleFindings' = <<>>
    /\ allFindings' = <<>>
    /\ reconText' = NoText
    /\ reconMark' = -1
    /\ IF filesEmpty
       THEN /\ pc' = "returned"
            /\ result' = NoResult
            /\ UNCHANGED engineVars
       ELSE /\ pc' = "recon"
            /\ result' = NoResult
            /\ llmQuery

\* part_003:283-312 the calls phaseFocusedAnalysis queues: perModule[k] for
\* the k-th module (0 when no file matches it); none once isExhausted.
RECURSIVE QueuedCalls(_, _, _)
QueuedCalls(mods, perModule, k) ==
    IF k > Len(mods) \/ isExhausted(callCount) THEN <<>>
    ELSE [j \in 1..perModule[k] |-> mods[k].module] \o QueuedCalls(mods, perModule, k + 1)

\* part_003:319-322 the findings of all results, each tagged with its module
RECURSIVE FocusedFindings(_, _, _)
FocusedFindings(res, cs, k) ==
    IF k > Len(res) THEN <<>>
    ELSE parseFindings(res[k], cs[k]) \o FocusedFindings(res, cs, k + 1)

\* part_003:378-403 phaseAggregation up to its await (or its return)
phaseAggregation(findings) ==
    IF Len(findings) = 0 THEN Return(<<>>, callCount, modules)
    ELSE IF Len(findings) <= 5 \/ isExhausted(callCount)
    THEN Return(simpleDeduplicate(findings), callCount, modules)
    ELSE pc' = "aggr" /\ result' = result /\ llmQuery

\* part_003:222-239 analyze after phase 2 returned found: phase 3 or 4.
Phase3Or4(found) ==
    /\ moduleFindings' = found
    /\ IF Len(found) > 0 /\ Len(modules) > 1 /\ ~isExhausted(callCount)
       THEN /\ pc' = "cross"
            /\ result' = result
            /\ allFindings' = <<>>
            /\ llmQuery
       ELSE /\ allFindings' = found
            /\ phaseAggregation(found)

(* ------------------- RLMRepl and analyzeWithREPL ----------------------- *)
NoFile == [type |-> "none", by |-> 0]
NoReturn == [call |-> 0, type |-> "none", from |-> 0]

\* No REPL session: the state before any analyzeWithREPL call.
ReplOff ==
    /\ rPc = "off"
    /\ rCaller = "none"
    /\ rMaxIterations = 0
    /\ rI = 0
    /\ rFindings = <<>>
    /\ blocks = <<>>
    /\ rReq = NoFile
    /\ containerId = 0
    /\ live = {}
    /\ started = 0
    /\ stops = 0
    /\ rExit = ""
    /\ py = "idle"
    /\ todo = <<>>
    /\ curCall = 0
    /\ nextCall = 0
    /\ requestFile = NoFile
    /\ responseFile = NoFile
    /\ lastReturn = NoReturn

\* part_008:421 the default of analyzeWithREPL's maxIterations parameter
ReplMaxIterations == 15

\* A model text of a REPL turn: whether it contains FINAL_ANSWER, what the
\* bracketed text after it parses to, and its ```repl``` code blocks.  A
\* code block is the sequence of helper calls its script makes.
FinalAnswer(text) ==
    [json |-> text.json, items |-> text.items, final |-> TRUE, blocks |-> <<>>]
ReplBlocks(bs) ==
    [json |-> "none", items |-> <<>>, final |-> FALSE, blocks |-> bs]

ReplTexts ==
    {FinalAnswer(Prose),
     FinalAnswer(Arr(<<NullItem>>)),
     FinalAnswer(Arr(<<Obj("", 0, <<"a.ts">>, 10, "high", "xss", "R1"),
                       Obj("", 0, <<"b.ts">>, 20, "low", "csrf", "R3"),
                       Obj("", 0, <<"c.ts">>, 30, "low", "idor", "R4")>>)),
     ReplBlocks(<<>>),
     ReplBlocks(<< <<>> >>),
     ReplBlocks(<< <<"single">> >>),
     ReplBlocks(<< <<"single">>, <<"single">> >>),
     ReplBlocks(<< <<"batched">>, <<"single", "single">> >>)}

\* Texts the model may answer a query made for the sandbox with.
SubTexts == {Prose}

\* Prompts of one llm_query_batched call of the catalogue's scripts.
BatchedPrompts == 2

\* rlm-repl.ts:67 start(): "ok", "fails" (no image, or docker run failed:
\* no container) or "helper" (the container runs, installing the helper
\* failed).  Result: containerId and the live containers after it; cid is
\* this.containerId before the call, which start() neither tests nor clears.
StartOutcomes == {"ok", "fails", "helper"}
start(outcome, cid, lv, fresh) ==
    IF outcome = "fails"
    THEN [containerId |-> cid, live |-> lv, threw |-> TRUE]
    ELSE [containerId |-> fresh, live |-> lv \cup {fresh}, threw |-> outcome = "helper"]

\* rlm-repl.ts:195 stop(): docker rm -f of the container, containerId = null
stopKeeps(cid, lv) == [containerId |-> cid, live |-> lv]
stop(cid, lv) == [containerId |-> 0, live |-> lv \ {cid}]

\* The sandbox of a container that runs no script.
SandboxIdle ==
    /\ py' = "idle"
    /\ todo' = <<>>
    /\ curCall' = 0

\* part_008:497-502 the finally block and what follows it: stop(), then
\* analyzeWithREPL returns {findings, iterations} or rethrows to its caller,
\* where analyze goes on with phase 3 or 4 or rejects in its turn.
ReplExit(why, thrown, found, cid, lv, caller) ==
    /\ rExit' = why
    /\ rPc' = IF thrown THEN "threw" ELSE "returned"
    /\ rFindings' = found
    /\ containerId' = stop(cid, lv).containerId
    /\ live' = stop(cid, lv).live
    /\ stops' = 1
    /\ blocks' = <<>>
    /\ rReq' = NoFile
    /\ SandboxIdle
    /\ requestFile' = NoFile
    /\ responseFile' = NoFile
    /\ IF caller = "analyze"
       THEN IF thrown
            THEN Throw /\ UNCHANGED <<moduleFindings, allFindings>>
            ELSE Phase3Or4(found)
       ELSE /\ EngineIdle
            /\ UNCHANGED <<maxIterations, concurrency, callCount, dispatched>>
            /\ UNCHANGED <<pc, result, moduleFindings, allFindings>>

\* part_008:442-447 the loop header and the head of a turn: the llmQuery of
\* the turn, or the loop is left.
ReplLoop(next, found, resp) ==
    IF next < rMaxIterations /\ ~isExhausted(callCount)
    THEN /\ rPc' = "turn"
         /\ rI' = next
         /\ rFindings' = found
         /\ blocks' = <<>>
         /\ rReq' = NoFile
         /\ SandboxIdle
         /\ llmQuery
         /\ UNCHANGED <<pc, result, moduleFindings, allFindings>>
         /\ responseFile' = resp
         /\ UNCHANGED <<containerId, live, stops, rExit, requestFile>>
    ELSE /\ rI' = next
         /\ ReplExit(IF next < rMaxIterations THEN "exhausted" ELSE "limit",
                     FALSE, found, containerId, live, rCaller)

\* part_008:418-433 analyzeWithREPL up to its await of readFiles: a new
\* RLMRepl is started; a start() that throws goes to the finally block.
analyzeWithREPL(caller, maxIt) ==
    /\ rCaller' = caller
    /\ rMaxIterations' = maxIt
    /\ rI' = 0
    /\ nextCall' = 0
    /\ lastReturn' = NoReturn
    /\ started' = started + 1
    /\ \E outcome \in StartOutcomes :
          LET st == start(outcome, 0, live, started + 1)
          IN IF st.threw
             THEN ReplExit("start", TRUE, <<>>, st.containerId, st.live, caller)
             ELSE /\ rPc' = "files"
                  /\ containerId' = st.containerId
                  /\ live' = st.live
                  /\ stops' = 0
                  /\ rExit' = ""
                  /\ rFindings' = <<>>
                  /\ blocks' = <<>>
                  /\ rReq' = NoFile
                  /\ SandboxIdle
                  /\ requestFile' = NoFile
                  /\ responseFile' = NoFile
                  /\ EngineIdle
                  /\ UNCHANGED <<maxIterations, concurrency, callCount, dispatched>>
                  /\ pc' = IF caller = "analyze" THEN "repl" ELSE pc
                  /\ UNCHANGED <<result, moduleFindings, allFindings>>

\* part_003:208-222 analyze resumed by phaseRecon; phase 2 is entered.
AfterRecon ==
    /\ UNCHANGED <<chunkVars, agentVars, pureVars, scaVars>>
    /\ pc = "recon"
    /\ OpResolved
    /\ reconText' = ret[1]
    /\ reconMark' = callCount
    /\ UNCHANGED <<run, useRepl>>
    /\ IF ThrowsOnNull(parseJSONArray(ret[1]))
       THEN Throw /\ UNCHANGED <<modules, calls, moduleFindings, allFindings, replVars>>
       ELSE LET mods == phaseRecon(ret[1])
            IN /\ modules' = mods
               /\ IF Len(mods) = 0 \/ isExhausted(callCount)
                  THEN /\ Return(<<>>, callCount, <<>>)
                       /\ calls' = <<>>
                       /\ UNCHANGED <<moduleFindings, allFindings, replVars>>
                  ELSE IF useRepl
                  THEN /\ calls' = <<>>
                       /\ analyzeWithREPL("analyze", ReplMaxIterations)
                  ELSE \E perModule \in [1..Len(mods) -> 0..MaxChunks] :
                          /\ calls' = QueuedCalls(mods, perModule, 1)
                          /\ pc' = "focused"
                          /\ result' = result
                          /\ llmQueryBatched(Len(calls'))
                          /\ UNCHANGED <<moduleFindings, allFindings, replVars>>

\* part_003:222-239 analyze resumed by phaseFocusedAnalysis; phase 3 or 4.
AfterFocused ==
    /\ UNCHANGED <<chunkVars, agentVars, replVars, pureVars, scaVars>>
    /\ pc = "focused"
    /\ OpResolved
    /\ UNCHANGED <<run, modules, calls, reconText, reconMark, useRepl>>
    /\ IF \E k \in DOMAIN results : ThrowsOnNull(parseJSONArray(results[k]))
       THEN Throw /\ UNCHANGED <<moduleFindings, allFindings>>
       ELSE Phase3Or4(FocusedFindings(results, calls, 1))

\* part_003:230-239 analyze resumed by phaseCrossModule; phase 4.
AfterCross ==
    /\ UNCHANGED <<chunkVars, agentVars, replVars, pureVars, scaVars>>
    /\ pc = "cross"
    /\ OpResolved
    /\ UNCHANGED <<run, modules, calls, moduleFindings, reconText, reconMark, useRepl>>
    /\ IF ThrowsOnNull(parseJSONArray(ret[1]))
       THEN Throw /\ UNCHANGED allFindings
       ELSE LET all == moduleFindings \o parseFindings(ret[1], "Cross-module analysis")
            IN /\ allFindings' = all
               /\ phaseAggregation(all)

\* part_003:411-417 snippet restored from the first original on file and line
RestoreSnippet(f, originals) ==
    LET same == SelectSeq(originals, LAMBDA o : o.file = f.file /\ o.line = f.line)
    IN IF same # <<>> /\ Head(same).snippet # ""
       THEN [f EXCEPT !.snippet = Head(same).snippet]
       ELSE f

\* part_003:405-419, 240-247 phaseAggregation resumed by its llmQuery.
AfterAggregation ==
    /\ UNCHANGED <<chunkVars, agentVars, replVars, pureVars, scaVars>>
    /\ pc = "aggr"
    /\ OpResolved
    /\ UNCHANGED <<run, modules, calls, moduleFindings, allFindings,
                   reconText, reconMark, useRepl>>
    /\ IF ThrowsOnNull(parseJSONArray(ret[1]))
       THEN Throw
       ELSE LET deduped == parseFindings(ret[1], "")
            IN IF Len(deduped) = 0
               THEN Return(simpleDeduplicate(allFindings), callCount, modules)
               ELSE Return([k \in 1..Len(deduped) |->
                               RestoreSnippet(deduped[k], allFindings)],
                           callCount, modules)

(* ----------------------- the REPL loop's steps -------------------------- *)
\* What no step of a running analyzeWithREPL changes.
ReplFrame ==
    UNCHANGED <<chunkVars, agentVars, pureVars, scaVars, run, modules, calls, reconText,
                reconMark, useRepl, rCaller, rMaxIterations, started>>

\* part_008:468-469 repl.execute(code) for the first of bs: execSync runs the
\* script in the container and returns when the script has ended.
Execute(bs, resp) ==
    /\ rPc' = "exec"
    /\ blocks' = bs
    /\ py' = "running"
    /\ todo' = Head(bs)
    /\ curCall' = 0
    /\ rReq' = NoFile
    /\ responseFile' = resp
    /\ EngineIdle
    /\ UNCHANGED <<maxIterations, concurrency, callCount, dispatched>>
    /\ UNCHANGED <<pc, result, moduleFindings, allFindings>>
    /\ UNCHANGED <<rI, rFindings, containerId, live, stops, rExit, requestFile>>

\* part_008:467-497 the next code block of the turn, or the next turn
NextBlock(resp) ==
    IF Len(blocks) > 1
    THEN Execute(Tail(blocks), resp)
    ELSE ReplLoop(rI + 1, rFindings, resp)

\* part_008:433-447 readFiles resolved: the transcript is set up and the
\* loop is entered.
ReplFilesRead ==
    /\ ReplFrame
    /\ rPc = "files"
    /\ ReplLoop(0, <<>>, responseFile)
    /\ UNCHANGED <<nextCall, lastReturn>>

\* part_008:447-469 the turn's llmQuery resolved with response.
ReplTurn ==
    /\ ReplFrame
    /\ rPc = "turn"
    /\ OpResolved
    /\ UNCHANGED <<nextCall, lastReturn>>
    /\ LET response == ret[1]
       IN IF response.json = "empty"
          THEN /\ rI' = rI
               /\ ReplExit("empty", FALSE, rFindings, containerId, live, rCaller)
          ELSE IF response.final
          THEN /\ rI' = rI
               /\ IF ThrowsOnNull(parseJSONArray(response))
                  THEN ReplExit("round", TRUE, rFindings, containerId, live, rCaller)
                  ELSE ReplExit("final", FALSE,
                                rFindings \o parseFindings(response, ""),
                                containerId, live, rCaller)
          ELSE IF response.blocks = <<>>
          THEN ReplLoop(rI + 1, rFindings, responseFile)
          ELSE Execute(response.blocks, responseFile)

\* What a step of the script in the sandbox leaves alone.
SandboxFrame ==
    UNCHANGED <<engineVars, analyzeVars, chunkVars, agentVars, pureVars, scaVars,
                rPc, rCaller,
                rMaxIterations, rI, rFindings, blocks, rReq, containerId, live,
                started, stops, rExit>>

\* rlm-repl.ts:22-26, 37-40 the script calls llm_query or llm_query_batched:
\* the request file is written and polling starts.
PyCalls ==
    /\ SandboxFrame
    /\ rPc = "exec"
    /\ py = "running"
    /\ todo # <<>>
    /\ py' = "polling"
    /\ curCall' = nextCall + 1
    /\ nextCall' = nextCall + 1
    /\ requestFile' = [type |-> Head(todo), by |-> nextCall + 1]
    /\ todo' = Tail(todo)
    /\ UNCHANGED <<responseFile, lastReturn>>

\* rlm-repl.ts:28-33, 41-46 a poll finds the response file: it is read and
\* removed and its content is what the call returns.
PyPollFinds ==
    /\ SandboxFrame
    /\ rPc = "exec"
    /\ py = "polling"
    /\ responseFile # NoFile
    /\ lastReturn' = [call |-> curCall, type |-> requestFile.type,
                      from |-> responseFile.by]
    /\ responseFile' = NoFile
    /\ py' = "running"
    /\ curCall' = 0
    /\ UNCHANGED <<todo, nextCall, requestFile>>

\* rlm-repl.ts:34, 48 no poll found a response file: the timeout text
PyPollTimesOut ==
    /\ SandboxFrame
    /\ rPc = "exec"
    /\ py = "polling"
    /\ responseFile = NoFile
    /\ lastReturn' = [call |-> curCall, type |-> requestFile.type, from |-> 0]
    /\ py' = "running"
    /\ curCall' = 0
    /\ UNCHANGED <<todo, nextCall, requestFile, responseFile>>

\* rlm-repl.ts:121 `timeout 30 python3` ends a script that is still polling
PyKilled ==
    /\ SandboxFrame
    /\ rPc = "exec"
    /\ py = "polling"
    /\ py' = "exited"
    /\ todo' = <<>>
    /\ curCall' = 0
    /\ UNCHANGED <<nextCall, requestFile, responseFile, lastReturn>>

\* part_008:469-490 execute() returned; checkForLLMRequest reads and removes
\* the request file and the query for it is started, or there is none.
ExecReturns ==
    /\ ReplFrame
    /\ rPc = "exec"
    /\ py = "exited" \/ (py = "running" /\ todo = <<>>)
    /\ UNCHANGED <<nextCall, lastReturn>>
    /\ IF requestFile # NoFile
       THEN /\ requestFile' = NoFile
            /\ rReq' = requestFile
            /\ rPc' = "sub"
            /\ IF requestFile.type = "single"
               THEN llmQuery
               ELSE llmQueryBatched(BatchedPrompts)
            /\ py' = "exited"
            /\ todo' = <<>>
            /\ curCall' = 0
            /\ UNCHANGED <<pc, result, moduleFindings, allFindings>>
            /\ UNCHANGED <<blocks, rI, rFindings, containerId, live, stops, rExit,
                           responseFile>>
       ELSE /\ requestFile' = NoFile
            /\ NextBlock(responseFile)

\* part_008:480, 487 the query for the sandbox resolved: writeLLMResponse
\* writes the response file, then the next block or turn.
SubResolved ==
    /\ ReplFrame
    /\ rPc = "sub"
    /\ OpResolved
    /\ UNCHANGED <<nextCall, lastReturn>>
    /\ requestFile' = requestFile
    /\ NextBlock([type |-> rReq.type, by |-> rReq.by])

\* The model answers a query of the REPL loop.
ReplReply ==
    /\ UNCHANGED <<analyzeVars, chunkVars, agentVars, replVars, pureVars, scaVars>>
    /\ rPc \in {"turn", "sub"}
    /\ \E k \in DOMAIN stage :
          \E t \in (IF rPc = "turn" THEN ReplTexts ELSE SubTexts) :
              ModelReplies(k, t)

\* A client of the engine calls analyzeWithREPL(targetPath, query, maxIt).
ClientCallsREPL ==
    /\ UNCHANGED <<chunkVars, agentVars, pureVars, scaVars, run, modules, calls,
                   reconText, reconMark, useRepl>>
    /\ pc = "idle"
    /\ rPc = "off"
    /\ op = "none"
    /\ \E maxIt \in 0..MaxReplTurns : analyzeWithREPL("client", maxIt)

(* ------------------------- RLMEngine.chunkCode -------------------------- *)
\* A FileInfo is [path, size]: path is the sequence of its segments and
\* size is content.length.

\* The number of characters of a path segment
SegLen(seg) ==
    CASE seg = "a.ts" -> 4
      [] seg = "b.ts" -> 4
      [] seg = "lib" -> 3
      [] seg = "src" -> 3
      [] seg = "auth" -> 4
      [] OTHER -> 1

\* path.length: the segments and the slashes between them
RECURSIVE PathLen(_)
PathLen(path) ==
    IF path = <<>> THEN 0
    ELSE SegLen(Head(path)) + (IF Len(path) > 1 THEN 1 ELSE 0) + PathLen(Tail(path))

\* node:path dirname as a segment sequence; <<>> stands for '.'
dirname(path) == SubSeq(path, 1, Len(path) - 1)

\* The collation order of the segments used here
SegRank(seg) ==
    CASE seg = "auth" -> 1
      [] seg = "lib" -> 2
      [] seg = "src" -> 3
      [] OTHER -> 4

\* dirname(a).localeCompare(dirname(b)) < 0 : '.' first, a prefix before its
\* extensions, otherwise the first differing segment decides.
RECURSIVE DirBefore(_, _)
DirBefore(a, b) ==
    IF b = <<>> THEN FALSE
    ELSE IF a = <<>> THEN TRUE
    ELSE IF Head(a) = Head(b) THEN DirBefore(Tail(a), Tail(b))
    ELSE SegRank(Head(a)) < SegRank(Head(b))

\* rlm-engine.ts:147 [...files].sort(by dirname), a stable sort
RECURSIVE InsertByDir(_, _)
InsertByDir(sorted, f) ==
    IF sorted = <<>> THEN <<f>>
    ELSE IF DirBefore(dirname(f.path), dirname(Head(sorted).path)) THEN <<f>> \o sorted
    ELSE <<Head(sorted)>> \o InsertByDir(Tail(sorted), f)

RECURSIVE SortByDir(_)
SortByDirUnsorted(fs) == fs
SortByDir(fs) ==
    IF fs = <<>> THEN <<>>
    ELSE InsertByDir(SortByDir(SubSeq(fs, 1, Len(fs) - 1)), fs[Len(fs)])

\* rlm-engine.ts:150 fileSize, with the 50 characters of header overhead
HeaderOverhead == 50
fileSize(f) == f.size + PathLen(f.path) + HeaderOverhead

\* rlm-engine.ts:151 the test that closes the current chunk
ClosesChunkLate(currentSize, fSize, currentLen, maxChars) ==
    currentSize > maxChars /\ currentLen > 0
ClosesChunk(currentSize, fSize, currentLen, maxChars) ==
    currentSize + fSize > maxChars /\ currentLen > 0

\* rlm-engine.ts:149-162 the loop over sorted and the final push
RECURSIVE chunkLoop(_, _, _, _, _)
chunkLoop(done, currentChunk, currentSize, rest, maxChars) ==
    IF rest = <<>>
    THEN (IF Len(currentChunk) > 0 THEN Append(done, currentChunk) ELSE done)
    ELSE LET file == Head(rest)
             closes == ClosesChunk(currentSize, fileSize(file), Len(currentChunk), maxChars)
         IN chunkLoop(IF closes THEN Append(done, currentChunk) ELSE done,
                      Append(IF closes THEN <<>> ELSE currentChunk, file),
                      (IF closes THEN 0 ELSE currentSize) + fileSize(file),
                      Tail(rest), maxChars)

\* rlm-engine.ts:141 chunkCode(files, maxCharsPerChunk)
chunkCode(fs, maxChars) == chunkLoop(<<>>, <<>>, 0, SortByDir(fs), maxChars)

\* The FileInfos and limits chunkCode is tried on
FileInfos ==
    {[path |-> <<"a.ts">>, size |-> 0],
     [path |-> <<"src", "a.ts">>, size |-> 20],
     [path |-> <<"src", "b.ts">>, size |-> 200],
     [path |-> <<"lib", "a.ts">>, size |-> 40],
     [path |-> <<"src", "auth", "a.ts">>, size |-> 60]}

Limits == {-1, 0, 100, 200, 300}

RECURSIVE SeqsUpTo(_, _)
SeqsUpTo(S, len) ==
    IF len = 0 THEN {<<>>}
    ELSE LET shorter == SeqsUpTo(S, len - 1)
         IN shorter \cup {Append(q, x) : q \in {r \in shorter : Len(r) = len - 1}, x \in S}

ChunkIdle ==
    /\ files = <<>>
    /\ maxCharsPerChunk = 0
    /\ chunks = <<>>
    /\ chunkPc = "off"

ChunkCall ==
    /\ UNCHANGED <<engineVars, analyzeVars, agentVars, replVars, pureVars, scaVars>>
    /\ chunkPc = "input"
    /\ chunks' = chunkCode(files, maxCharsPerChunk)
    /\ chunkPc' = "done"
    /\ UNCHANGED <<files, maxCharsPerChunk>>

(* ------------------------ AgentV2Scanner.scan --------------------------- *)
\* agent-v2.ts:312 minFilesBeforeDone
minFilesBeforeDone(count) ==
    LET half == count \div 2
        atLeast == IF half > 5 THEN half ELSE 5
    IN Min(atLeast, 20)

\* agent-v2.ts:438 the context limit in characters
ContextLimit == 300000

\* The paths a read_file call may name: the file join(basePath, path) is,
\* "" when there is none, and the length of what readFile returns for it.
TargetOf(path) ==
    CASE path = "a.sol" -> "a.sol"
      [] path = "./a.sol" -> "a.sol"
      [] path = "src/../a.sol" -> "a.sol"
      [] path = "b.sol" -> "b.sol"
      [] path = "c.sol" -> "c.sol"
      [] path = "d.sol" -> "d.sol"
      [] path = "e.sol" -> "e.sol"
      [] OTHER -> ""

ListingChars(target) ==
    CASE target = "a.sol" -> 2000
      [] target = "b.sol" -> 3000
      [] OTHER -> 110000

\* agent-v2.ts:164 readFile: the numbered content, or an 'Error: ...' text
readFile(path) ==
    IF TargetOf(path) = ""
    THEN [chars |-> 30, isError |-> TRUE, read |-> {}]
    ELSE [chars |-> ListingChars(TargetOf(path)), isError |-> FALSE,
          read |-> {TargetOf(path)}]

\* agent-v2.ts:207 handleToolCall: the content's length, whether it starts
\* with 'Error:', the file it read and whether it recorded a finding.
handleToolCall(call) ==
    CASE call.name = "read_file" ->
            [chars |-> readFile(call.path).chars, isError |-> readFile(call.path).isError,
             read |-> readFile(call.path).read, finding |-> FALSE]
      [] call.name = "report_finding" ->
            [chars |-> 17, isError |-> FALSE, read |-> {}, finding |-> TRUE]
      [] call.name = "done" ->
            [chars |-> 15, isError |-> FALSE, read |-> {}, finding |-> FALSE]
      [] OTHER ->
            [chars |-> 20, isError |-> FALSE, read |-> {}, finding |-> FALSE]

Call(name, path) == [name |-> name, path |-> path]

\* The assistant messages the model may answer a turn with.
Responses ==
    {[stopReason |-> "stop", text |-> 500, toolCalls |-> <<>>],
     [stopReason |-> "length", text |-> 500, toolCalls |-> <<>>],
     [stopReason |-> "length", text |-> 90000, toolCalls |-> <<>>],
     [stopReason |-> "toolUse", text |-> 0, toolCalls |-> <<Call("done", "")>>],
     [stopReason |-> "toolUse", text |-> 0,
      toolCalls |-> <<Call("read_file", "a.sol"), Call("read_file", "b.sol")>>],
     [stopReason |-> "toolUse", text |-> 0,
      toolCalls |-> <<Call("read_file", "a.sol"), Call("read_file", "./a.sol"),
                      Call("read_file", "src/../a.sol"), Call("read_file", "gone.sol"),
                      Call("read_file", "b.sol")>>],
     [stopReason |-> "toolUse", text |-> 0,
      toolCalls |-> <<Call("read_file", "c.sol"), Call("read_file", "d.sol")>>],
     [stopReason |-> "toolUse", text |-> 0,
      toolCalls |-> <<Call("read_file", "c.sol"), Call("read_file", "d.sol"),
                      Call("read_file", "e.sol")>>],
     [stopReason |-> "toolUse", text |-> 0,
      toolCalls |-> <<Call("read_file", "c.sol"), Call("read_file", "d.sol"),
                      Call("read_file", "e.sol"), Call("done", "")>>],
     [stopReason |-> "toolUse", text |-> 0,
      toolCalls |-> <<Call("done", ""), Call("report_finding", "")>>],
     [stopReason |-> "toolUse", text |-> 0,
      toolCalls |-> <<Call("report_finding", ""), Call("unknown_tool", "")>>]}

SourceFileCounts == {4, 12, 60}

\* A message of the conversation: its role, the length the context check
\* counts for it, and for a toolResult the toolCallId <<turn, call>> it
\* carries; an assistant message has the id <<turn, 0>> and its calls.
MsgNoId(role, chars, id, isError) ==
    [role |-> role, chars |-> chars, id |-> <<0, 0>>, isError |-> isError, calls |-> 0]
Msg(role, chars, id, isError) ==
    [role |-> role, chars |-> chars, id |-> id, isError |-> isError, calls |-> 0]

\* agent-v2.ts:346 messages.push(response)
Assistant(response, turn) ==
    [role |-> "assistant", chars |-> response.text + 100 * Len(response.toolCalls),
     id |-> <<turn, 0>>, isError |-> FALSE, calls |-> Len(response.toolCalls)]

\* agent-v2.ts:374-419 the loop over the tool calls of one assistant message.
\* st = [messages, filesRead, actuallyRead, aFindings, isDone]
RECURSIVE ProcessCalls(_, _, _, _, _)
ProcessCalls(st, toolCalls, j, turn, minFiles) ==
    IF j > Len(toolCalls) THEN st
    ELSE LET call == toolCalls[j]
             fr == IF call.name = "read_file" /\ call.path # ""
                   THEN st.filesRead \cup {call.path} ELSE st.filesRead
             blocked == call.name = "done" /\ Cardinality(fr) < minFiles
             res == handleToolCall(call)
         IN IF blocked
            THEN ProcessCalls(
                    [st EXCEPT !.filesRead = fr,
                               !.messages = Append(@, Msg("toolResult", 120, <<turn, j>>, TRUE))],
                    toolCalls, j + 1, turn, minFiles)
            ELSE ProcessCalls(
                    [messages |-> Append(st.messages,
                                         Msg("toolResult", res.chars, <<turn, j>>, res.isError)),
                     filesRead |-> fr,
                     actuallyRead |-> st.actuallyRead \cup res.read,
                     findings |-> st.findings + (IF res.finding THEN 1 ELSE 0),
                     isDone |-> st.isDone \/ call.name = "done"],
                    toolCalls, j + 1, turn, minFiles)

RECURSIVE totalChars(_)
totalChars(msgs) == IF msgs = <<>> THEN 0 ELSE Head(msgs).chars + totalChars(Tail(msgs))

AgentOff ==
    /\ aPc = "off"
    /\ aMaxIterations = 0
    /\ aI = 0
    /\ sourceFileCount = 0
    /\ filesRead = {}
    /\ messages = <<>>
    /\ aFindings = 0
    /\ endedBy = ""
    /\ actuallyRead = {}

\* The loop header for the next value of i: another complete() or the return.
NextTurn(next) ==
    IF next < aMaxIterations
    THEN aPc' = "awaiting" /\ aI' = next /\ endedBy' = ""
    ELSE aPc' = "returned" /\ aI' = next /\ endedBy' = "iterations"

Break(why) == aPc' = "returned" /\ aI' = aI /\ endedBy' = why

\* agent-v2.ts:345-442 one turn after complete() resolved with response.
Turn(response) ==
    /\ UNCHANGED <<engineVars, analyzeVars, chunkVars, replVars, pureVars, scaVars>>
    /\ aPc = "awaiting"
    /\ UNCHANGED <<aMaxIterations, sourceFileCount>>
    /\ LET pushed == Append(messages, Assistant(response, aI + 1))
           minFiles == minFilesBeforeDone(sourceFileCount)
       IN IF Len(response.toolCalls) = 0
          THEN /\ UNCHANGED <<filesRead, aFindings, actuallyRead>>
               /\ IF /\ response.stopReason = "stop"
                     /\ Cardinality(filesRead) < minFiles
                     /\ aI < aMaxIterations - 2
                  THEN /\ messages' = Append(pushed, Msg("user", 300, <<aI + 1, 0>>, FALSE))
                       /\ NextTurn(aI + 1)
                  ELSE /\ messages' = pushed
                       /\ IF response.stopReason = "stop"
                          THEN Break("stop")
                          ELSE NextTurn(aI + 1)
          ELSE LET st == ProcessCalls(
                            [messages |-> pushed, filesRead |-> filesRead,
                             actuallyRead |-> actuallyRead, findings |-> aFindings,
                             isDone |-> FALSE],
                            response.toolCalls, 1, aI + 1, minFiles)
               IN /\ messages' = st.messages
                  /\ filesRead' = st.filesRead
                  /\ actuallyRead' = st.actuallyRead
                  /\ aFindings' = st.findings
                  /\ IF st.isDone THEN Break("done")
                     ELSE IF totalChars(st.messages) > ContextLimit THEN Break("context")
                     ELSE NextTurn(aI + 1)

\* agent-v2.ts:340-343 complete() rejected: the loop is left.
ModelError ==
    /\ UNCHANGED <<engineVars, analyzeVars, chunkVars, replVars, pureVars, scaVars>>
    /\ aPc = "awaiting"
    /\ Break("error")
    /\ UNCHANGED <<aMaxIterations, sourceFileCount, filesRead, messages, aFindings,
                   actuallyRead>>

ModelResponds == \E response \in Responses : Turn(response)

(* ------------------------- searchFiles (sca.ts) ------------------------- *)
\* A project tree: a directory is its entries in readdir order; an entry is
\* a source file with the number of its lines that include the pattern, or
\* a directory.  Ignored directories and other files count as files with 0.
File(matches) == [isDirectory |-> FALSE, matches |-> matches, entries |-> <<>>]
Dir(entries) == [isDirectory |-> TRUE, matches |-> 0, entries |-> entries]

\* sca.ts:393 the limit on results.length
SearchLimit == 50

\* sca.ts:390-395 the loop over the lines of one file: [count, returned],
\* the length of results after it and whether it hit the `return`.
searchLines(matches, count) ==
    IF matches = 0 THEN [count |-> count, returned |-> FALSE]
    ELSE IF count >= SearchLimit THEN [count |-> count + 1, returned |-> TRUE]
    ELSE IF count + matches >= SearchLimit THEN [count |-> SearchLimit, returned |-> TRUE]
    ELSE [count |-> count + matches, returned |-> FALSE]

\* sca.ts:376-401 searchDir: the `return` leaves this call of searchDir only
RECURSIVE searchDir(_, _, _)
searchDir(entries, k, count) ==
    IF k > Len(entries) THEN count
    ELSE IF entries[k].isDirectory
    THEN searchDir(entries, k + 1, searchDir(entries[k].entries, 1, count))
    ELSE LET res == searchLines(entries[k].matches, count)
         IN IF res.returned THEN res.count
            ELSE searchDir(entries, k + 1, res.count)

\* sca.ts:374 searchFiles: the number of match lines of the returned text
searchFiles(tree) == searchDir(tree, 1, 0)

\* The trees searchFiles is applied to: up to MaxEntries entries in a
\* directory, directories nested once.
Files == {File(0), File(30), File(50)}
Subdirs == {Dir(es) : es \in UNION {[1..len -> Files] : len \in 0..MaxEntries}}
Trees == UNION {[1..len -> Files \cup Subdirs] : len \in 0..MaxEntries}

\* sca.ts:374-406 searchFiles(basePath, pattern) called
searchFilesCall ==
    /\ PureFrame
    /\ callPc = "input"
    /\ arg' = arg
    /\ callPc' = "returned"
    /\ retval' = searchFiles(arg)

(* ---------------------- the agents' file actions ------------------------ *)
\* A path is the sequence of its segments; an absolute path starts at '/'.
\* join(basePath, filePath) normalizes: '..' drops the segment before it.
RECURSIVE normalize(_, _)
normalize(done, rest) ==
    IF rest = <<>> THEN done
    ELSE IF Head(rest) = ".."
    THEN normalize(IF done = <<>> THEN <<>> ELSE SubSeq(done, 1, Len(done) - 1), Tail(rest))
    ELSE normalize(Append(done, Head(rest)), Tail(rest))
join(basePath, filePath) == normalize(<<>>, basePath \o filePath)

\* String.prototype.startsWith on the names of the model's directories
NameStartsWith(name, prefix) ==
    \/ name = prefix
    \/ name = "proj-old" /\ prefix = "proj"

\* full.startsWith(basePath) on the path strings: the segments before
\* basePath's last are equal and the next one starts with basePath's last.
startsWithSegments(full, basePath) ==
    /\ Len(full) >= Len(basePath)
    /\ SubSeq(full, 1, Len(basePath)) = basePath
startsWith(full, basePath) ==
    /\ Len(full) >= Len(basePath)
    /\ SubSeq(full, 1, Len(basePath) - 1) = SubSeq(basePath, 1, Len(basePath) - 1)
    /\ NameStartsWith(full[Len(basePath)], basePath[Len(basePath)])

\* The file system: a.sol is a file in every directory, every other name a
\* directory.
IsFile(full) ==
    /\ full # <<>>
    /\ full[Len(full)] = "a.sol"
    /\ \A k \in 1..(Len(full) - 1) : full[k] # "a.sol"

NoAccess == [access |-> "none", full |-> <<>>]

\* sca.ts:360 readSourceFile, agent-v2.ts:164 readFile: the file read, if any
readSourceFile(basePath, filePath) ==
    LET full == join(basePath, filePath)
    IN IF ~startsWith(full, basePath) THEN NoAccess
       ELSE IF IsFile(full) THEN [access |-> "read", full |-> full]
       ELSE NoAccess

\* agent-v2.ts:259 handleToolCall write_file: the file written, if any
writeFile(basePath, filePath) ==
    LET full == join(basePath, filePath)
    IN IF ~startsWith(full, basePath) THEN NoAccess
       ELSE IF IsFile(full) THEN [access |-> "write", full |-> full]
       ELSE NoAccess

\* The project root and the path arguments of the file actions.
ProjectRoot == <<"work", "proj">>
Segments == {"..", "src", "proj", "proj-old", "a.sol"}
PathArgs == UNION {[1..len -> Segments] : len \in 0..MaxSegments}
FileActions == {"READ", "read_file", "write_file"}

\* One file action of an agent with the path argument arg.path
fileActionCall ==
    /\ PureFrame
    /\ callPc = "input"
    /\ arg' = arg
    /\ callPc' = "returned"
    /\ retval' = IF arg.action = "write_file"
                 THEN writeFile(ProjectRoot, arg.path)
                 ELSE readSourceFile(ProjectRoot, arg.path)

(* ------------------- an RLMRepl used by a client ------------------------ *)
\* One RLMRepl whose start(), execute() and stop() a client calls in any
\* order: rI counts the calls made, rExit is how the last one ended.
SessionFrame ==
    UNCHANGED <<engineVars, analyzeVars, chunkVars, agentVars, pureVars, scaVars,
                rPc, rCaller, rMaxIterations, rFindings, blocks, rReq, stops,
                py, todo, curCall, nextCall, requestFile, responseFile, lastReturn>>

\* rlm-repl.ts:68-101 start(targetPath)
SessionStart ==
    /\ SessionFrame
    /\ rPc = "session"
    /\ rI < MaxOps
    /\ rI' = rI + 1
    /\ \E outcome \in StartOutcomes :
          LET st == start(outcome, containerId, live, started + 1)
          IN /\ containerId' = st.containerId
             /\ live' = st.live
             /\ started' = IF outcome = "fails" THEN started ELSE started + 1
             /\ rExit' = IF st.threw THEN "startThrew" ELSE "started"

\* rlm-repl.ts:106-150 execute(code): throws without a container, else runs
\* the script to its end and returns its output
SessionExecute ==
    /\ SessionFrame
    /\ rPc = "session"
    /\ rI < MaxOps
    /\ rI' = rI + 1
    /\ rExit' = IF containerId = 0 THEN "executeThrew" ELSE "executed"
    /\ UNCHANGED <<containerId, live, started>>

\* rlm-repl.ts:195-207 stop()
SessionStop ==
    /\ SessionFrame
    /\ rPc = "session"
    /\ rI < MaxOps
    /\ rI' = rI + 1
    /\ rExit' = "stopped"
    /\ containerId' = IF containerId = 0 THEN 0 ELSE stop(containerId, live).containerId
    /\ live' = IF containerId = 0 THEN live ELSE stop(containerId, live).live
    /\ UNCHANGED started

(* ----------------------- AgentScanner.scan (textual) -------------------- *)
\* A response text is abstracted by what parseAction's patterns find in it:
\* finding = "none", "bad" (a FINDING marker whose {...} JSON.parse rejects),
\* "good" or "illtyped" (it parses; severity or message is a number), the
\* path after READ, the pattern after SEARCH, and whether it includes DONE.
Response(chars, finding, json, read, search, done) ==
    [chars |-> chars, finding |-> finding, json |-> json, read |-> read,
     search |-> search, done |-> done]

NoJSON == [file |-> "", line |-> 0, severity |-> "", message |-> "", rule |-> ""]
NoResponse == Response(0, "none", NoJSON, "", "", FALSE)

ScaResponses ==
    {Response(300, "good", [file |-> "a.sol", line |-> 7, severity |-> "critical",
                            message |-> "reentrancy", rule |-> "R1"], "", "", FALSE),
     Response(300, "good", [file |-> "b.sol", line |-> 0, severity |-> "",
                            message |-> "", rule |-> ""], "", "", TRUE),
     Response(300, "illtyped", NoJSON, "", "", FALSE),
     Response(300, "bad", NoJSON, "", "", FALSE),
     Response(300, "bad", NoJSON, "", "", TRUE),
     Response(300, "bad", NoJSON, "a.sol", "", FALSE),
     Response(200, "none", NoJSON, "a.sol", "", FALSE),
     Response(200, "none", NoJSON, "gone.sol", "", TRUE),
     Response(200, "none", NoJSON, "", "transfer", TRUE),
     Response(200, "none", NoJSON, "", "", TRUE),
     Response(30000, "none", NoJSON, "", "", FALSE),
     NoResponse}

\* sca.ts:408 parseAction
parseAction(response) ==
    IF response.finding \in {"good", "illtyped"} THEN "finding"
    ELSE IF response.read # "" THEN "read"
    ELSE IF response.search # "" THEN "search"
    ELSE IF response.done THEN "done"
    ELSE "unknown"

\* sca.ts:360 readSourceFile: the length of the numbered content, 0 for null
SourceChars(path) ==
    CASE path = "a.sol" -> 100016
      [] path = "b.sol" -> 4000
      [] OTHER -> 0

\* sca.ts:541-551 the Finding built from the parsed object; the snippet is
\* found when the file is in filesRead.
tFinding(json, cached) ==
    [file |-> json.file,
     line |-> IF json.line = 0 THEN 1 ELSE json.line,
     severity |-> IF json.severity = "" THEN "high" ELSE json.severity,
     message |-> IF json.message = "" THEN "Vulnerability detected" ELSE json.message,
     rule |-> IF json.rule = "" THEN "AGENT_GENERIC" ELSE json.rule,
     snippet |-> json.file \in cached]

\* sca.ts:563 findings.push(f)
pushFirst(findings, f) == <<f>> \o findings
push(findings, f) == Append(findings, f)

Entry(kind, chars) == [kind |-> kind, chars |-> chars]

\* sca.ts:470 the first transcript entry: the file tree and the instructions
IntroChars == 20000
SummaryChars == 120
SearchChars == 2500
TrimLimit == 120000
KeepRecent == 6

\* sca.ts:512-585 the [Result] of a turn for its action
ResultEntry(response, cached) ==
    LET action == parseAction(response)
    IN CASE action = "read" ->
              IF response.read \in cached
              THEN Entry("again", SourceChars(response.read) + 60)
              ELSE IF SourceChars(response.read) > 0
              THEN Entry("file", SourceChars(response.read) + 70)
              ELSE Entry("readError", 70)
         [] action = "search" -> Entry("search", SearchChars)
         [] action = "finding" -> Entry("recorded", 90)
         [] OTHER -> Entry("unknown", 130)

RECURSIVE TranscriptChars(_)
TranscriptChars(t) == IF t = <<>> THEN 0 ELSE Head(t).chars + TranscriptChars(Tail(t))

\* sca.ts:590-599 the trim: first entry, summary, transcript.slice(-6)
Trim(t) ==
    IF TranscriptChars(t) > TrimLimit
    THEN LET b == slice(0 - KeepRecent, Len(t), Len(t))
         IN <<t[1], Entry("summary", SummaryChars)>> \o SubSeq(t, b[1], b[2])
    ELSE t

ScaOff ==
    /\ tPc = "off"
    /\ tMaxIterations = 0
    /\ tI = 0
    /\ tFindings = <<>>
    /\ transcript = <<>>
    /\ tFilesRead = {}
    /\ tEndedBy = ""
    /\ tCalls = 0
    /\ tLast = NoResponse
    /\ tRecorded = <<>>

ScaFrame ==
    UNCHANGED <<engineVars, analyzeVars, chunkVars, agentVars, replVars, pureVars,
                tMaxIterations>>

\* sca.ts:474 the loop header for the next i: completeSimple or the return
ScaNext(next) ==
    IF next < tMaxIterations
    THEN tPc' = "awaiting" /\ tI' = next /\ tEndedBy' = "" /\ tCalls' = tCalls + 1
    ELSE tPc' = "returned" /\ tI' = next /\ tEndedBy' = "iterations" /\ tCalls' = tCalls

ScaLeave(pcAfter, why) ==
    tPc' = pcAfter /\ tI' = tI /\ tEndedBy' = why /\ tCalls' = tCalls

\* sca.ts:499-601 one turn after completeSimple resolved with response
ScaTurn(response) ==
    /\ ScaFrame
    /\ tPc = "awaiting"
    /\ tLast' = response
    /\ IF response = NoResponse
       THEN /\ ScaLeave("returned", "empty")
            /\ UNCHANGED <<tFindings, transcript, tFilesRead, tRecorded>>
       ELSE LET pushed == Append(transcript, Entry("response", response.chars))
                action == parseAction(response)
            IN CASE action = "done" ->
                      /\ ScaLeave("returned", "done")
                      /\ transcript' = pushed
                      /\ UNCHANGED <<tFindings, tFilesRead, tRecorded>>
                 [] action = "finding" /\ response.finding = "illtyped" ->
                      /\ ScaLeave("threw", "typeError")
                      /\ transcript' = pushed
                      /\ tFindings' = push(tFindings, tFinding(response.json, tFilesRead))
                      /\ tRecorded' = Append(tRecorded, tFinding(response.json, tFilesRead))
                      /\ UNCHANGED tFilesRead
                 [] OTHER ->
                      /\ tFindings' = IF action = "finding"
                                      THEN push(tFindings, tFinding(response.json, tFilesRead))
                                      ELSE tFindings
                      /\ tRecorded' = IF action = "finding"
                                      THEN Append(tRecorded, tFinding(response.json, tFilesRead))
                                      ELSE tRecorded
                      /\ tFilesRead' = IF action = "read" /\ SourceChars(response.read) > 0
                                       THEN tFilesRead \cup {response.read}
                                       ELSE tFilesRead
                      /\ transcript' = Trim(Append(pushed, ResultEntry(response, tFilesRead)))
                      /\ ScaNext(tI + 1)

\* sca.ts:495-497 completeSimple rejected (or the text extraction threw)
ScaModelError ==
    /\ ScaFrame
    /\ tPc = "awaiting"
    /\ ScaLeave("returned", "error")
    /\ UNCHANGED <<tFindings, transcript, tFilesRead, tLast, tRecorded>>

ScaResponds == \E response \in ScaResponses : ScaTurn(response)

(* --------------- the engine under an arbitrary client ------------------ *)
\* The client's await of llmQuery / llmQueryBatched resumes.
ClientResumes ==
    /\ UNCHANGED <<chunkVars, agentVars, replVars, pureVars, scaVars>>
    /\ pc = "idle"
    /\ OpResolved
    /\ EngineIdle
    /\ UNCHANGED <<maxIterations, concurrency, callCount, dispatched>>
    /\ UNCHANGED analyzeVars

ClientCallsQuery ==
    /\ pc = "idle" /\ op = "none" /\ llmQuery /\ UNCHANGED analyzeVars
    /\ UNCHANGED <<chunkVars, agentVars, replVars, pureVars, scaVars>>

ClientCallsBatched ==
    /\ UNCHANGED <<chunkVars, agentVars, replVars, pureVars, scaVars>>
    /\ pc = "idle"
    /\ op = "none"
    /\ \E m \in 0..MaxCalls : llmQueryBatched(m)
    /\ UNCHANGED analyzeVars

\* The steps of the outstanding llmQuery invocations.
CreateModelReturns ==
    /\ \E k \in DOMAIN stage : CreateModelOk(k) /\ UNCHANGED analyzeVars
    /\ UNCHANGED <<chunkVars, agentVars, replVars, pureVars, scaVars>>

CreateModelFails ==
    /\ \E k \in DOMAIN stage : CreateModelThrows(k) /\ UNCHANGED analyzeVars
    /\ UNCHANGED <<chunkVars, agentVars, replVars, pureVars, scaVars>>

ModelCallFails ==
    /\ \E k \in DOMAIN stage : ModelFails(k) /\ UNCHANGED analyzeVars
    /\ UNCHANGED <<chunkVars, agentVars, replVars, pureVars, scaVars>>

ClientReply ==
    /\ UNCHANGED <<chunkVars, agentVars, replVars, pureVars, scaVars>>
    /\ pc = "idle"
    /\ \E k \in DOMAIN stage : \E t \in ClientTexts : ModelReplies(k, t)
    /\ UNCHANGED analyzeVars

PhaseReply ==
    /\ UNCHANGED <<chunkVars, agentVars, replVars, pureVars, scaVars>>
    /\ pc \in {"recon", "focused", "cross", "aggr"}
    /\ \E k \in DOMAIN stage :
          \E t \in (IF pc = "recon" THEN ReconTexts ELSE FindingTexts) :
              ModelReplies(k, t)
    /\ UNCHANGED analyzeVars

BatchResumes ==
    /\ BatchJoin /\ UNCHANGED analyzeVars
    /\ UNCHANGED <<chunkVars, agentVars, replVars, pureVars, scaVars>>

vars == <<maxIterations, concurrency, callCount, op, opDone, n, i,
          stage, ret, order, results, dispatched,
          pc, run, modules, calls, moduleFindings, allFindings, result,
          reconText, reconMark, files, maxCharsPerChunk, chunks, chunkPc,
          aPc, aMaxIterations, aI, sourceFileCount, filesRead, messages,
          aFindings, endedBy, actuallyRead, useRepl, rPc, rCaller,
          rMaxIterations, rI, rFindings, blocks, rReq, containerId, live,
          started, stops, rExit, py, todo, curCall, nextCall, requestFile,
          responseFile, lastReturn, callPc, arg, retval, tPc, tMaxIterations,
          tI, tFindings, transcript, tFilesRead, tEndedBy, tCalls, tLast,
          tRecorded>>

EngineInit ==
    /\ maxIterations \in 0..MaxIter
    /\ concurrency \in 1..MaxConc
    /\ callCount = 0
    /\ dispatched = 0
    /\ op = "none"
    /\ opDone = FALSE
    /\ n = 0
    /\ i = 0
    /\ stage = <<>>
    /\ ret = <<>>
    /\ order = <<>>
    /\ results = <<>>

AnalyzeIdle ==
    /\ pc = "idle"
    /\ run = 0
    /\ modules = <<>>
    /\ calls = <<>>
    /\ moduleFindings = <<>>
    /\ allFindings = <<>>
    /\ result = NoResult
    /\ reconText = NoText
    /\ reconMark = -1

AnalyzeInit == AnalyzeIdle /\ useRepl = FALSE

\* One engine, any sequence of llmQuery and llmQueryBatched calls.
Init == EngineInit /\ AnalyzeInit /\ ChunkIdle /\ AgentOff /\ ReplOff /\ PureOff /\ ScaOff

Next ==
    \/ ClientCallsQuery
    \/ ClientCallsBatched
    \/ CreateModelReturns
    \/ CreateModelFails
    \/ ModelCallFails
    \/ ClientReply
    \/ BatchResumes
    \/ ClientResumes

Spec == Init /\ [][Next]_vars

\* One engine with any concurrency its constructor keeps (rlm-engine.ts:58
\* replaces only an unset value), 0 included.  Every step of a model call
\* that can be taken is taken in the end, and so is every resumption.
InitBatch ==
    /\ maxIterations \in 0..MaxIter
    /\ concurrency \in 0..MaxConc
    /\ callCount = 0
    /\ dispatched = 0
    /\ op = "none"
    /\ opDone = FALSE
    /\ n = 0
    /\ i = 0
    /\ stage = <<>>
    /\ ret = <<>>
    /\ order = <<>>
    /\ results = <<>>
    /\ AnalyzeInit
    /\ ChunkIdle
    /\ AgentOff
    /\ ReplOff
    /\ PureOff
    /\ ScaOff

SpecBatch ==
    /\ InitBatch
    /\ [][Next]_vars
    /\ WF_vars(CreateModelReturns \/ CreateModelFails)
    /\ WF_vars(ClientReply \/ ModelCallFails)
    /\ WF_vars(BatchResumes)

\* One scanner, analyze() invoked on it up to MaxRuns times.
AnalyzeStarts == \E filesEmpty \in BOOLEAN : Analyze(filesEmpty)

NextAnalyze ==
    \/ AnalyzeStarts
    \/ CreateModelReturns
    \/ CreateModelFails
    \/ ModelCallFails
    \/ PhaseReply
    \/ BatchResumes
    \/ AfterRecon
    \/ AfterFocused
    \/ AfterCross
    \/ AfterAggregation

SpecAnalyze == Init /\ [][NextAnalyze]_vars

\* One scanner in REPL mode: analyze() once, or the engine's analyzeWithREPL
\* called by a client.
InitRepl ==
    /\ EngineInit
    /\ AnalyzeIdle
    /\ useRepl = TRUE
    /\ ChunkIdle
    /\ AgentOff
    /\ ReplOff
    /\ PureOff
    /\ ScaOff

ReplAnalyzeStarts == rPc = "off" /\ pc = "idle" /\ Analyze(FALSE)

NextRepl ==
    \/ ReplAnalyzeStarts
    \/ ClientCallsREPL
    \/ CreateModelReturns
    \/ CreateModelFails
    \/ ModelCallFails
    \/ PhaseReply
    \/ ReplReply
    \/ BatchResumes
    \/ AfterRecon
    \/ AfterCross
    \/ AfterAggregation
    \/ ReplFilesRead
    \/ ReplTurn
    \/ PyCalls
    \/ PyPollFinds
    \/ PyPollTimesOut
    \/ PyKilled
    \/ ExecReturns
    \/ SubResolved

SpecRepl == InitRepl /\ [][NextRepl]_vars

EngineOff ==
    /\ maxIterations = 0
    /\ concurrency = 1
    /\ callCount = 0
    /\ dispatched = 0
    /\ op = "none"
    /\ opDone = FALSE
    /\ n = 0
    /\ i = 0
    /\ stage = <<>>
    /\ ret = <<>>
    /\ order = <<>>
    /\ results = <<>>

\* sca.ts:457-474 scan() up to the first completeSimple
InitSca ==
    /\ EngineOff
    /\ AnalyzeInit
    /\ ChunkIdle
    /\ AgentOff
    /\ ReplOff
    /\ PureOff
    /\ tMaxIterations \in 0..MaxTurns
    /\ tI = 0
    /\ tPc = IF 0 < tMaxIterations THEN "awaiting" ELSE "returned"
    /\ tEndedBy = IF 0 < tMaxIterations THEN "" ELSE "iterations"
    /\ tCalls = IF 0 < tMaxIterations THEN 1 ELSE 0
    /\ tFindings = <<>>
    /\ tRecorded = <<>>
    /\ tFilesRead = {}
    /\ tLast = NoResponse
    /\ transcript = <<Entry("intro", IntroChars)>>

NextSca ==
    \/ ScaResponds
    \/ ScaModelError

SpecSca == InitSca /\ [][NextSca]_vars

\* rlm-repl.ts:58-64 a new RLMRepl in the hands of a client
InitSession ==
    /\ EngineOff
    /\ AnalyzeInit
    /\ ChunkIdle
    /\ AgentOff
    /\ PureOff
    /\ ScaOff
    /\ rPc = "session"
    /\ rCaller = "client"
    /\ rMaxIterations = 0
    /\ rI = 0
    /\ rFindings = <<>>
    /\ blocks = <<>>
    /\ rReq = NoFile
    /\ containerId = 0
    /\ live = {}
    /\ started = 0
    /\ stops = 0
    /\ rExit = ""
    /\ py = "idle"
    /\ todo = <<>>
    /\ curCall = 0
    /\ nextCall = 0
    /\ requestFile = NoFile
    /\ responseFile = NoFile
    /\ lastReturn = NoReturn

NextSession ==
    \/ SessionStart
    \/ SessionExecute
    \/ SessionStop

SpecSession == InitSession /\ [][NextSession]_vars

\* searchFiles applied to every tree within the bounds.
InitSearch ==
    /\ EngineOff
    /\ AnalyzeInit
    /\ ChunkIdle
    /\ AgentOff
    /\ ReplOff
    /\ ScaOff
    /\ callPc = "input"
    /\ arg \in Trees
    /\ retval = <<>>

NextSearch == searchFilesCall

SpecSearch == InitSearch /\ [][NextSearch]_vars

\* A file action applied to every path argument within the bounds.
InitPath ==
    /\ EngineOff
    /\ AnalyzeInit
    /\ ChunkIdle
    /\ AgentOff
    /\ ReplOff
    /\ ScaOff
    /\ callPc = "input"
    /\ arg \in [action : FileActions, path : PathArgs]
    /\ retval = <<>>

NextPath == fileActionCall

SpecPath == InitPath /\ [][NextPath]_vars

\* parseFindings applied to every text within the bounds.
InitParse ==
    /\ EngineOff
    /\ AnalyzeInit
    /\ ChunkIdle
    /\ AgentOff
    /\ ReplOff
    /\ ScaOff
    /\ callPc = "input"
    /\ arg \in [text : ParseTexts, snippet : {"", "Module: auth"}]
    /\ retval = <<>>

NextParse == parseFindingsCall

\* Exact-key deduplication applied to every list within the bounds.
InitExact ==
    /\ EngineOff
    /\ AnalyzeInit
    /\ ChunkIdle
    /\ AgentOff
    /\ ReplOff
    /\ ScaOff
    /\ callPc = "input"
    /\ arg \in FindingLists(ExactFindings)
    /\ retval = <<>>

NextExact == simpleDeduplicateByKeyCall

SpecExact == InitExact /\ [][NextExact]_vars

\* Proximity deduplication applied to every list within the bounds.
InitProximity ==
    /\ EngineOff
    /\ AnalyzeInit
    /\ ChunkIdle
    /\ AgentOff
    /\ ReplOff
    /\ ScaOff
    /\ callPc = "input"
    /\ arg \in FindingLists(ProximityFindings)
    /\ retval = <<>>

NextProximity == simpleDeduplicateCall

SpecProximity == InitProximity /\ [][NextProximity]_vars

SpecParse == InitParse /\ [][NextParse]_vars

\* chunkCode applied to every file list and limit within the bounds.
InitChunk ==
    /\ EngineOff
    /\ AnalyzeInit
    /\ files \in SeqsUpTo(FileInfos, MaxFiles)
    /\ maxCharsPerChunk \in Limits
    /\ chunks = <<>>
    /\ chunkPc = "input"
    /\ AgentOff
    /\ ReplOff
    /\ PureOff
    /\ ScaOff

NextChunk == ChunkCall

SpecChunk == InitChunk /\ [][NextChunk]_vars

\* agent-v2.ts:301-331 scan() up to the first complete(): one scan for every
\* source-file count and maxIterations within the bounds.
InitAgent ==
    /\ EngineOff
    /\ AnalyzeInit
    /\ ChunkIdle
    /\ ReplOff
    /\ PureOff
    /\ ScaOff
    /\ aMaxIterations \in 0..MaxTurns
    /\ sourceFileCount \in SourceFileCounts
    /\ aI = 0
    /\ aPc = IF 0 < aMaxIterations THEN "awaiting" ELSE "returned"
    /\ endedBy = IF 0 < aMaxIterations THEN "" ELSE "iterations"
    /\ filesRead = {}
    /\ actuallyRead = {}
    /\ aFindings = 0
    /\ messages = <<Msg("user", 170, <<0, 0>>, FALSE)>>

NextAgent ==
    \/ ModelResponds
    \/ ModelError

SpecAgent == InitAgent /\ [][NextAgent]_vars

(* ============================ properties ================================ *)
Exhausted == callCount >= maxIterations
NewlyLoading(k) == stage'[k] = "loading" /\ ~(k \in DOMAIN stage /\ stage[k] = "loading")
Unanswered == {"refused", "nomodel", "failed"}

\* C1: in every state with callCount >= maxIterations, reached by any
\* sequence of llmQuery and llmQueryBatched calls, a further llmQuery returns
\* empty text, begins no model call and leaves callCount unchanged.
C1_ExhaustedQueryIsFree ==
    [][Exhausted =>
         /\ callCount' = callCount
         /\ dispatched' = dispatched
         /\ \A k \in DOMAIN stage' : ~NewlyLoading(k)
         /\ (op = "none" /\ op' = "single" =>
                stage'[1] = "refused" /\ ret'[1] = NoText)]_vars

C1_Witness ==
    /\ op = "single"
    /\ stage[1] = "refused"
    /\ ret[1] = NoText
    /\ callCount = maxIterations
    /\ maxIterations >= 2

\* C2: whatever the interleaving of the llmQuery invocations of a batch, the
\* model calls begun on one engine never exceed maxIterations and callCount
\* equals their number; no invocation holds a passed exhaustion check that
\* another invocation's increment has since invalidated.
C2_BudgetNeverExceeded ==
    /\ dispatched <= maxIterations
    /\ callCount = dispatched
    /\ Cardinality({k \in DOMAIN stage : stage[k] \in Outstanding}) <= maxIterations

C2_Witness ==
    /\ op = "batched"
    /\ callCount = maxIterations
    /\ \E j, k \in DOMAIN stage :
          /\ j < k
          /\ (j - 1) \div concurrency = (k - 1) \div concurrency
          /\ stage[j] \in Outstanding
          /\ stage[k] = "refused"

\* C3: during llmQueryBatched at most `concurrency` model calls are
\* outstanding, and no call of a later group is begun before every call of
\* the preceding groups has completed (succeeded, failed or been refused).
C3_GroupsRunInTurn ==
    op = "batched" =>
        /\ Cardinality({k \in DOMAIN stage : stage[k] \in Outstanding}) <= concurrency
        /\ \A j, k \in DOMAIN stage :
              ((j - 1) \div concurrency < (k - 1) \div concurrency /\ stage[k] # "pending")
                  => stage[j] \in Final

C3_Witness ==
    /\ op = "batched"
    /\ concurrency = 2
    /\ n = 3
    /\ stage[3] \in Outstanding
    /\ stage[1] = "ok"
    /\ stage[2] = "failed"

Phases == {"recon", "focused", "cross", "aggr"}
PhaseRank(p) ==
    CASE p = "recon" -> 1 [] p = "focused" -> 2 [] p = "cross" -> 3
      [] p = "aggr" -> 4 [] OTHER -> 5

\* C5: within analyze() callCount never decreases, and once callCount >=
\* maxIterations no phase begins a model call: the remaining Focused calls
\* return empty text, CrossModule is skipped, and Aggregation returns the
\* local deduplication of its input.
C5_ExhaustionIsSticky ==
    [][/\ callCount' >= callCount
       /\ Exhausted =>
            /\ callCount' = callCount
            /\ dispatched' = dispatched
            /\ \A k \in DOMAIN stage' :
                  /\ ~NewlyLoading(k)
                  /\ (stage'[k] = "refused" => ret'[k] = NoText)
            /\ (pc = "focused" => pc' # "cross")
            /\ (pc \in {"focused", "cross"} => pc' # "aggr")
            /\ (pc \in {"focused", "cross"} /\ pc' = "returned" =>
                   result'.findings = simpleDeduplicate(allFindings'))]_vars

C5_Witness ==
    /\ pc = "returned"
    /\ run = 1
    /\ Exhausted
    /\ Len(modules) > 1
    /\ Len(allFindings) > 5
    /\ allFindings = moduleFindings
    /\ result.findings = simpleDeduplicate(allFindings)
    /\ Len(result.findings) < Len(allFindings)

\* The Recon text holds no usable module: '' or unparseable or [], or only
\* entries lacking module or priority.
ReconYieldsNone(text) ==
    \A k \in DOMAIN parseJSONArray(text) :
        /\ parseJSONArray(text)[k].kind = "obj"
        /\ (parseJSONArray(text)[k].module = "" \/ parseJSONArray(text)[k].priority = 0)

C7_PhasesInOrder ==
    [][/\ (dispatched' > dispatched => pc' \in Phases)
       /\ (pc \in Phases /\ pc' # pc) =>
            /\ \A k \in DOMAIN stage : stage[k] \in Final
            /\ (pc' \in Phases => PhaseRank(pc') > PhaseRank(pc))]_vars

C7_Witness ==
    /\ pc = "aggr"
    /\ stage[1] \in Outstanding
    /\ Len(allFindings) > Len(moduleFindings)
    /\ callCount = 4

RECURSIVE Flatten(_)
Flatten(cs) == IF cs = <<>> THEN <<>> ELSE Head(cs) \o Flatten(Tail(cs))

RECURSIVE TotalSize(_)
TotalSize(chunk) ==
    IF chunk = <<>> THEN 0
    ELSE Head(chunk).size + PathLen(Head(chunk).path) + 50 + TotalSize(Tail(chunk))

Occurrences(seq, x) == Cardinality({k \in DOMAIN seq : seq[k] = x})

\* C8: every chunk chunkCode returns that holds two or more files has a
\* total size (content length + path length + 50 per file) of at most
\* maxChars; a chunk exceeds maxChars only if it is one file that does.
C8_ChunksFit ==
    chunkPc = "done" =>
        \A c \in DOMAIN chunks :
            TotalSize(chunks[c]) > maxCharsPerChunk => Len(chunks[c]) = 1

C8_Witness ==
    /\ chunkPc = "done"
    /\ \E c \in DOMAIN chunks :
          Len(chunks[c]) = 1 /\ TotalSize(chunks[c]) > maxCharsPerChunk
    /\ \E c \in DOMAIN chunks :
          Len(chunks[c]) >= 2 /\ TotalSize(chunks[c]) <= maxCharsPerChunk
    /\ maxCharsPerChunk > 0

\* C9: the chunks partition the input: every input file is in exactly one
\* chunk once, no chunk is empty, the result is empty exactly when the input
\* is, and the chunks concatenated are the input stably sorted by directory.
C9_ChunksPartition ==
    chunkPc = "done" =>
        LET flat == Flatten(chunks)
        IN /\ \A c \in DOMAIN chunks : chunks[c] # <<>>
           /\ (chunks = <<>> <=> files = <<>>)
           /\ Len(flat) = Len(files)
           /\ \A k \in DOMAIN files : Occurrences(flat, files[k]) = Occurrences(files, files[k])
           /\ \A j, k \in DOMAIN flat :
                 j < k => ~DirBefore(dirname(flat[k].path), dirname(flat[j].path))
           /\ \A k \in DOMAIN files :
                 LET InDir(f) == dirname(f.path) = dirname(files[k].path)
                 IN SelectSeq(flat, InDir) = SelectSeq(files, InDir)

C9_Witness ==
    /\ chunkPc = "done"
    /\ Len(chunks) >= 2
    /\ Len(files) = 3
    /\ Flatten(chunks) # files
    /\ dirname(files[1].path) = dirname(files[3].path)
    /\ files[1] # files[3]

\* C10: a `done` tool call ends the loop only if at least
\* T = min(max(5, floor(sourceFileCount / 2)), 20) distinct files have
\* actually been read (failed reads and further spellings of a read path do
\* not count).
C10_DoneNeedsFilesRead ==
    (aPc = "returned" /\ endedBy = "done") =>
        Cardinality(actuallyRead) >= minFilesBeforeDone(sourceFileCount)

\* C11: when the model answers with no tool calls and stopReason 'stop' while
\* fewer than the minimum number of files have been read and at least one
\* more turn of maxIterations remains, the run does not end at that turn
\* (a nudge is appended and the model is called again).
C11_StopIsNudged ==
    [][(/\ aPc = "awaiting"
        /\ Cardinality(filesRead) < minFilesBeforeDone(sourceFileCount)
        /\ aI + 1 < aMaxIterations)
       => ~(aPc' = "returned" /\ endedBy' = "stop")]_vars

\* C12: an llm_query(X) call made by code running in the sandbox under
\* analyzeWithREPL returns the host's response to its own request (the host
\* answers while the call is polling), not the timeout text.
C12_QueryReturnsItsAnswer ==
    (lastReturn.type = "single") => lastReturn.from = lastReturn.call

\* C13: on every exit path of analyzeWithREPL (FINAL_ANSWER, empty model
\* response, budget exhaustion, iteration limit, an exception raised by
\* start() or during a round) stop() has been invoked when control is back
\* at the caller, and isRunning (containerId # null) is false.
C13_StopOnEveryExit ==
    rPc \in {"returned", "threw"} =>
        /\ rExit \in {"final", "empty", "exhausted", "limit", "start", "round"}
        /\ stops = 1
        /\ containerId = 0

C13_Witness ==
    /\ rPc = "threw"
    /\ rExit = "round"
    /\ started = 1
    /\ stops = 1
    /\ containerId = 0

\* C14: when starting the sandbox container fails or a sandbox operation
\* raises during a REPL-mode run, analyze() still returns an RLMResult and
\* does not propagate the exception.
C14_SandboxFailureIsContained ==
    (rCaller = "analyze" /\ rPc = "threw") => pc # "threw"

\* C15: llmQuery never raises to its caller: an attempt whose createModel,
\* model call or text extraction fails resolves with empty text, callCount
\* was incremented exactly once for the attempt (when it began, not when it
\* failed), and later calls proceed normally.
C15_llmQueryNeverRaises ==
    [][/\ \A k \in DOMAIN stage :
             (stage[k] \in Outstanding /\ k \in DOMAIN stage' /\ stage'[k] # stage[k]) =>
                 /\ stage'[k] \in {"calling", "nomodel", "failed", "ok"}
                 /\ stage'[k] \in {"nomodel", "failed"} => ret'[k] = NoText
                 /\ callCount' = callCount
       /\ callCount' = callCount +
              Cardinality({k \in DOMAIN stage' : NewlyLoading(k)})]_vars

C15_Witness ==
    /\ op = "batched"
    /\ concurrency = 1
    /\ Len(stage) >= 3
    /\ stage[1] = "nomodel"
    /\ stage[2] = "failed"
    /\ stage[3] = "ok"
    /\ callCount = 3

\* C16: for every model output text parseFindings returns a list and raises
\* no error, and every Finding it returns has a message; this includes
\* arrays with elements that are not objects (null, numbers, strings) and
\* bracketed text that is not valid JSON.
C16_ParseNeverRaises ==
    /\ callPc # "threw"
    /\ callPc = "returned" => \A k \in DOMAIN retval : retval[k].message # ""

\* C17: in AgentScanner.scan, a turn whose response contains a FINDING marker
\* with JSON that fails to parse records no finding and does not end the
\* loop, whatever else the response contains: the result appended to the
\* transcript is the explanatory error message and exactly one turn is used.
C17_BadFindingIsExplained ==
    [][(tPc = "awaiting" /\ transcript' # transcript /\ tLast'.finding = "bad") =>
          /\ tFindings' = tFindings
          /\ tEndedBy' # "done"
          /\ tI' = tI + 1
          /\ transcript'[Len(transcript')].kind = "unknown"]_vars

SameTriple(a, b) == a.file = b.file /\ a.line = b.line /\ a.rule = b.rule
FirstOfTriple(fs, k) == \A j \in 1..(k - 1) : ~SameTriple(fs[j], fs[k])
RECURSIVE KeepFirsts(_, _)
KeepFirsts(fs, k) ==
    IF k > Len(fs) THEN <<>>
    ELSE (IF FirstOfTriple(fs, k) THEN <<fs[k]>> ELSE <<>>) \o KeepFirsts(fs, k + 1)
C19_ExactKeyDedup ==
    callPc = "returned" => retval = KeepFirsts(arg, 1)

\* C20: proximity deduplication of two findings on the same normalized path
\* gives one finding if and only if their lines differ by at most 3.
AbsDiff(a, b) == IF a >= b THEN a - b ELSE b - a
C20_ProximityMergesWithinThree ==
    (/\ callPc = "returned"
     /\ Len(arg) = 2
     /\ normFile(arg[1].file) = normFile(arg[2].file)) =>
        (Len(retval) = 1 <=> AbsDiff(arg[1].line, arg[2].line) <= 3)

\* C21: over every sequence of start(), execute() and stop() calls on one
\* RLMRepl, at most one container started by it is live at any time, and
\* after a stop() has returned none is.
C21_OneLiveContainer ==
    rPc = "session" =>
        /\ Cardinality(live) <= 1
        /\ rExit = "stopped" => live = {}

\* C22: every analyze() invocation on a scanner, the second one on the same
\* instance included, starts with callCount = 0, so that it has the whole
\* maxIterations budget and its llmCalls counts only its own model calls.
C22_RunsStartAtZero ==
    [][run' = run + 1 => callCount = 0]_vars

\* C23: phaseAggregation dispatches a model call if and only if its input
\* holds more than 5 findings and the budget is not exhausted, and then
\* exactly one; when the text of that call holds no parseable finding, the
\* result is the local deduplication of the input.
NoParseableFinding(text) == SelectSeq(parseJSONArray(text), HasMessage) = <<>>
C23_AggregationDispatch ==
    [][/\ (pc \in {"recon", "focused", "cross"} /\ pc' \in {"aggr", "returned"}) =>
            /\ pc' = "aggr" <=> (Len(allFindings') > 5 /\ ~isExhausted(callCount))
            /\ pc' = "aggr" => dispatched' = dispatched + 1
       /\ pc = "aggr" =>
            /\ dispatched' = dispatched
            /\ (pc' # "aggr" /\ NoParseableFinding(ret[1])) =>
                  /\ pc' = "returned"
                  /\ result'.findings = simpleDeduplicate(allFindings)]_vars

\* C24: in AgentV2Scanner.scan no model call is issued while the characters
\* of all conversation messages exceed 300,000: the loop stops at the end of
\* the turn that crosses the threshold, with or without tool calls in it.
C24_NoCallAboveContextLimit ==
    aPc = "awaiting" => totalChars(messages) <= ContextLimit

C25_SearchAtMostFifty ==
    callPc = "returned" => retval <= SearchLimit

\* C26: the agents' file actions (READ, read_file, write_file) never read or
\* write a file whose resolved path lies outside the project root, for every
\* path argument built from '..' segments and directory names, names that
\* share a string prefix with the root's name included.
C26_FileActionsStayInRoot ==
    (callPc = "returned" /\ retval.access # "none") =>
        startsWithSegments(retval.full, ProjectRoot)

\* C27: every value that an llm_query or llm_query_batched call in the
\* sandbox returns from a response file is the host's response to the
\* request that same call wrote, never one written for an earlier request,
\* over every sequence of code-block executions of a session.
C27_ResponsesPairWithRequests ==
    lastReturn.from # 0 => lastReturn.from = lastReturn.call

\* C28: llmQueryBatched terminates for every list of calls and every integer
\* concurrency the engine configuration accepts, given that each model call
\* terminates.
C28_BatchedTerminates ==
    (op = "batched" /\ ~opDone) ~> opDone

\* C29: in the textual agent loop a compaction (the transcript exceeds
\* 120,000 characters at the end of a turn, at whatever turn that first
\* happens) never increases the transcript's total length: the result is
\* the initial entry once, at index 0, the summary and the 6 most recent
\* entries.
BeforeTrim ==
    Append(Append(transcript, Entry("response", tLast'.chars)),
           ResultEntry(tLast', tFilesRead))
C29_CompactionNeverGrows ==
    [][(tPc = "awaiting" /\ tI' = tI + 1 /\ TranscriptChars(BeforeTrim) > TrimLimit) =>
          /\ TranscriptChars(transcript') <= TranscriptChars(BeforeTrim)
          /\ Len(transcript') = KeepRecent + 2
          /\ transcript'[1] = transcript[1]
          /\ transcript'[2].kind = "summary"
          /\ \A k \in 2..Len(transcript') : transcript'[k].kind # "intro"
          /\ \A k \in 1..KeepRecent :
                transcript'[2 + k] = BeforeTrim[Len(BeforeTrim) - KeepRecent + k]]_vars

====
